---- MODULE Spec2Model ----
(***************************************************************************)
(* Agent Exchange demo: the A2A task protocol server, the bid auction      *)
(* (collection and scoring) and the provider's payment verification gate.  *)
(* Each component has its own specification over the shared variables; a   *)
(* component's specification leaves the other components' variables alone. *)
(***************************************************************************)
EXTENDS Integers, Sequences, FiniteSets, TLC

(* ------------------------------ bounds -------------------------------- *)
\* tasks created on one server
MaxTasks == 2
\* events the handlers of one server yield in all
MaxEvents == 2
\* get/cancel/rejected calls recorded on one server
MaxCalls == 2
\* largest token amount (service price, offered amount, transfer)
MaxPrice == 2
\* transfers made to the wallets while one provider serves requests
MaxHistory == 1
\* text parts in one provider's answer to a bid request
MaxParts == 2
\* bids in one bid set handed to evaluate_bids
MaxBids == 2
\* records in a provider's wallet history that is longer than the window
MaxLedger == 11
\* artifacts in the final state of one BaseAgent.process
MaxArtifacts == 2
\* requests one gateway client sends with send_request
MaxRequests == 2
\* messages of the gateway waiting on the websocket to be read
MaxInbox == 2
\* clicks on "Run Workflow" in one browser session
MaxRuns == 2

VARIABLES
    \* A2AServer (src/demo/agents/common/a2a_server.py)
    require_auth,   \* A2AServer.require_auth
    tasks,          \* A2AServer.tasks: task id (1..Len) -> Task
    calls,          \* per message/send call (one per task): the coroutine's frame
    lastReply,      \* the response of the latest call that is not a message/send
    nCalls,         \* number of such calls so far
    lastCall,       \* the request last dispatched: its number and what it carried
    nEvents         \* number of handler events so far

taskVars == <<require_auth, tasks, calls, lastReply, nCalls, lastCall, nEvents>>

VARIABLES
    \* MoltbotAgent (src/demo/moltbot_integration/agents/common/moltbot_agent.py)
    service_price,  \* config.service_price
    wallet_history, \* the Token Bank's history of the provider's wallet, oldest first
    run             \* the frame of the handle_message generator being consumed

gateVars == <<service_price, wallet_history, run>>

VARIABLES
    \* bid collection (src/demo/aex/ui/main.py, src/demo/ui/nicegui_app.py)
    variant,        \* which of the bid collecting functions runs
    round           \* the frame of the function, with what the providers sent

auctionVars == <<variant, round>>

VARIABLES
    \* evaluate_bids (aex/ui/main.py, ui/main.py, ui/nicegui_app.py)
    ranking         \* one call of evaluate_bids: its arguments, locals and result

rankVars == <<ranking>>

VARIABLES
    \* BasePaymentAgent (src/demo/agents/common/payment_agent.py)
    payagent        \* the provider's percents, the request's amount, and the
                    \* cart and receipt of its last bid and process answers

payVars == <<payagent>>

VARIABLES
    \* MoltbotAgent.pay_for_service_with_steps with AP2Client (ap2_client.py)
    chain,          \* the frame of one call: its stage, what it requested and got
    outcomes        \* what the calls so far returned, with the stage that failed

chainVars == <<chain, outcomes>>

VARIABLES
    \* the marketplace UI (src/demo/ui/main.py, src/demo/aex/ui/main.py)
    session         \* the Mesop State of one browser session and the workflow's locals

sessionVars == <<session>>

VARIABLES
    \* one run of an agent's handler generator (BaseAgent.handle_message,
    \* ResearcherAgent.handle_request, BasePaymentAgent.handle_message)
    agent_run       \* the run's inputs, its position and the events yielded so far

agentVars == <<agent_run>>

VARIABLES
    \* the consumer side (MoltbotAgent.request_service_from_agent,
    \* CustomerAgent.request_service_via_moltbook)
    consumer        \* the frame of one call: what it learnt, paid and sent

consumerVars == <<consumer>>

VARIABLES
    \* OpenClawClient (src/demo/moltbot_integration/agents/common/openclaw_client.py)
    gateway       \* the connection, _pending_requests, the receive loop and the requests made

gatewayVars == <<gateway>>

VARIABLES
    \* run_workflow (src/demo/ui/nicegui_app.py), on_run_workflow (src/demo/aex/ui/main.py)
    workflow       \* the page state of one session: is_running, the task list, the running handler

workflowVars == <<workflow>>

vars == <<taskVars, gateVars, auctionVars, rankVars, payVars, chainVars,
          sessionVars, agentVars, consumerVars, gatewayVars, workflowVars>>

\* what the actions of one component leave alone
notTask == <<gateVars, auctionVars, rankVars, payVars, chainVars, sessionVars,
             agentVars, consumerVars, gatewayVars, workflowVars>>
notGate == <<taskVars, auctionVars, rankVars, payVars, chainVars, sessionVars,
             agentVars, consumerVars, gatewayVars, workflowVars>>
notAuction == <<taskVars, gateVars, rankVars, payVars, chainVars, sessionVars,
                agentVars, consumerVars, gatewayVars, workflowVars>>
notRank == <<taskVars, gateVars, auctionVars, payVars, chainVars, sessionVars,
             agentVars, consumerVars, gatewayVars, workflowVars>>
notPay == <<taskVars, gateVars, auctionVars, rankVars, chainVars, sessionVars,
            agentVars, consumerVars, gatewayVars, workflowVars>>
notChain == <<taskVars, gateVars, auctionVars, rankVars, payVars, sessionVars,
              agentVars, consumerVars, gatewayVars, workflowVars>>
notSession == <<taskVars, gateVars, auctionVars, rankVars, payVars, chainVars,
                agentVars, consumerVars, gatewayVars, workflowVars>>
notAgent == <<taskVars, gateVars, auctionVars, rankVars, payVars, chainVars,
              sessionVars, consumerVars, gatewayVars, workflowVars>>
notConsumer == <<taskVars, gateVars, auctionVars, rankVars, payVars, chainVars,
                 sessionVars, agentVars, gatewayVars, workflowVars>>
notGateway == <<taskVars, gateVars, auctionVars, rankVars, payVars, chainVars,
                sessionVars, agentVars, consumerVars, workflowVars>>
notWorkflow == <<taskVars, gateVars, auctionVars, rankVars, payVars, chainVars,
                 sessionVars, agentVars, consumerVars, gatewayVars>>

(* ====================================================================== *)
(* Task Protocol Engine: A2AServer                                         *)
(* ====================================================================== *)

\* class TaskState
TaskState == {"submitted", "working", "input-required", "completed", "canceled", "failed"}

\* states a handler reports in a status event
StatusEventStates == {"working", "input-required", "failed"}

\* The status events of one handler run taken by themselves follow the task
\* state machine (the handlers of the repository report "working" first):
\* the states a handler may report after having reported `last`.
HandlerMayReport(last) ==
    CASE last = "submitted" -> {"working"}
      [] last = "working" -> {"working", "input-required", "failed"}
      [] last = "input-required" -> {"working"}
      [] OTHER -> {}

\* request ids: one per call, opaque to the server
SendId(t) == <<"send", t>>
CallId(n) == <<"call", n>>
NoId == <<"none", 0>>
Methods == {"message/send", "message/stream", "tasks/get", "tasks/cancel"}
UnknownMethods == {"tasks/list"}
\* part lists: the empty list and a one-part text list
PartLists == {<<>>, <<"text">>}

\* Message(role, parts)
Message(role, parts) == [role |-> role, parts |-> parts]

\* Task(...) as created by _handle_message_send
NewTask(id, message) ==
    [id |-> id, state |-> "submitted", history |-> <<message>>, artifacts |-> <<>>]

NoSnapshot == [id |-> 0, state |-> "none", history |-> <<>>, artifacts |-> <<>>]
NoReply == [kind |-> "none", id |-> <<"none", 0>>, code |-> 0, task |-> NoSnapshot]

\* Task.to_dict: the snapshot put in a response
to_dict(task) == task

\* the {"jsonrpc", "id", "result"} envelope of _handle_jsonrpc
ResultResponse(request_id, result) ==
    [kind |-> "result", id |-> request_id, code |-> 0, task |-> result]

\* (mutant) the error envelope does not carry the request's id
ErrorResponseWithoutId(request_id, code) ==
    [kind |-> "error", id |-> <<"none", 0>>, code |-> code, task |-> NoSnapshot]

\* A2AServer._error_response
ErrorResponse(request_id, code) ==
    [kind |-> "error", id |-> request_id, code |-> code, task |-> NoSnapshot]

\* (mutant) an unknown method is answered as an invalid request
PreRouteUnknownAsInvalid(envelope, auth, claims, method) ==
    IF envelope = "unparsable" THEN -32700
    ELSE IF envelope = "badversion" THEN -32600
    ELSE IF require_auth /\ auth = "none" THEN -32001
    ELSE IF require_auth /\ ~claims THEN -32001
    ELSE IF method \notin Methods THEN -32600
    ELSE 0

\* (mutant) no credential check
PreRouteWithoutAuth(envelope, auth, claims, method) ==
    IF envelope = "unparsable" THEN -32700
    ELSE IF envelope = "badversion" THEN -32600
    ELSE IF method \notin {"message/send", "message/stream", "tasks/get", "tasks/cancel"}
         THEN -32601
    ELSE 0

\* The checks _handle_jsonrpc makes before it routes: 0 when the call goes to
\* its method's handler, the error code otherwise.
PreRoute(envelope, auth, claims, method) ==
    IF envelope = "unparsable" THEN -32700
    ELSE IF envelope = "badversion" THEN -32600
    ELSE IF require_auth /\ auth = "none" THEN -32001
    ELSE IF require_auth /\ ~claims THEN -32001
    ELSE IF method \notin Methods THEN -32601
    ELSE 0

\* (mutant) the handlers share one task object
WriteShared(map, id, task) == [u \in 1..Len(map) |-> task]

\* a write to the Task object held at self.tasks[id]
Write(map, id, task) == [map EXCEPT ![id] = task]

\* the frame of one _handle_message_send coroutine
NewCall(request_id, message) ==
    [pc |-> "running", id |-> request_id, message |-> message,
     reported |-> "submitted", response_parts |-> <<>>,
     artifacts |-> <<>>, raised |-> FALSE, reply |-> NoReply]

Running(t) == t \in 1..Len(calls) /\ calls[t].pc = "running"

\* what a request carried, as far as _handle_jsonrpc looks at it: whether the
\* body is a JSON-RPC 2.0 envelope; its method and its params["id"], which
\* are read only from such an envelope; and whether it has a bearer token for
\* which validate_token gives claims, which is read only with require_auth
NoCall ==
    [method |-> "none", task_id |-> 0, wellformed |-> TRUE, authorised |-> FALSE]
Request(envelope, auth, claims, method, task_id) ==
    [method |-> IF envelope = "ok" THEN method ELSE "none",
     task_id |-> IF envelope = "ok" THEN task_id ELSE 0,
     wellformed |-> envelope = "ok",
     authorised |-> envelope = "ok" /\ require_auth /\ auth = "bearer" /\ claims]

\* _handle_jsonrpc returning an error before any method handler runs
DispatchRejected ==
    /\ nCalls < MaxCalls
    /\ \E envelope \in {"unparsable", "badversion", "ok"}, auth \in {"none", "bearer"},
          claims \in BOOLEAN, method \in Methods \cup UnknownMethods :
          LET code == PreRoute(envelope, auth, claims, method)
              rid == CallId(nCalls + 1) IN
          /\ code # 0
          /\ lastReply' = ErrorResponse(IF envelope = "unparsable" THEN NoId ELSE rid, code)
          /\ lastCall' = Request(envelope, auth, claims, method, 0)
    /\ nCalls' = nCalls + 1
    /\ UNCHANGED <<require_auth, tasks, calls, nEvents>>
    /\ UNCHANGED notTask

\* message/send and message/stream up to the first await of the handler's
\* stream: the task is created in the task map
MessageSend ==
    /\ Len(tasks) < MaxTasks
    /\ \E auth \in {"none", "bearer"}, claims \in BOOLEAN,
          method \in {"message/send", "message/stream"}, parts \in PartLists :
          /\ PreRoute("ok", auth, claims, method) = 0
          /\ tasks' = Append(tasks, NewTask(Len(tasks) + 1, Message("user", parts)))
          /\ calls' = Append(calls, NewCall(SendId(Len(tasks) + 1), Message("user", parts)))
          /\ lastCall' = Request("ok", auth, claims, method, 0)
    /\ UNCHANGED <<require_auth, lastReply, nCalls, nEvents>>
    /\ UNCHANGED notTask

\* the handler yields a status event
HandlerStatus(t) ==
    /\ Running(t) /\ nEvents < MaxEvents
    /\ nEvents' = nEvents + 1
    /\ \E s \in StatusEventStates \cap HandlerMayReport(calls[t].reported) :
          /\ tasks' = Write(tasks, t, [tasks[t] EXCEPT !.state = s])
          /\ calls' = [calls EXCEPT ![t].reported = s]
    /\ UNCHANGED <<require_auth, lastReply, nCalls, lastCall>>
    /\ UNCHANGED notTask

\* the handler yields an artifact event
HandlerArtifact(t) ==
    /\ Running(t) /\ nEvents < MaxEvents
    /\ nEvents' = nEvents + 1
    /\ calls' = [calls EXCEPT ![t].artifacts = Append(@, "artifact")]
    /\ UNCHANGED <<require_auth, tasks, lastReply, nCalls, lastCall>>
    /\ UNCHANGED notTask

\* the handler yields a result event
HandlerResult(t) ==
    /\ Running(t) /\ nEvents < MaxEvents
    /\ nEvents' = nEvents + 1
    /\ \E parts \in PartLists :
          calls' = [calls EXCEPT ![t].response_parts = parts]
    /\ UNCHANGED <<require_auth, tasks, lastReply, nCalls, lastCall>>
    /\ UNCHANGED notTask

\* (mutant) the agent's message takes the place of the history
FinishTaskNewHistory(task, call) ==
    [task EXCEPT !.state = "completed",
                 !.artifacts = call.artifacts,
                 !.history = IF call.response_parts # <<>>
                             THEN <<Message("agent", call.response_parts)>>
                             ELSE @]

\* the handler's stream ends: lines 218-227, and the result envelope
FinishTask(task, call) ==
    [task EXCEPT !.state = "completed",
                 !.artifacts = call.artifacts,
                 !.history = IF call.response_parts # <<>>
                             THEN Append(@, Message("agent", call.response_parts))
                             ELSE @]

HandlerEnd(t) ==
    /\ Running(t)
    /\ tasks' = Write(tasks, t, FinishTask(tasks[t], calls[t]))
    /\ calls' = [calls EXCEPT ![t].pc = "returned",
                              ![t].reply = ResultResponse(calls[t].id,
                                               to_dict(FinishTask(tasks[t], calls[t])))]
    /\ UNCHANGED <<require_auth, lastReply, nCalls, lastCall, nEvents>>
    /\ UNCHANGED notTask

\* the handler raises: the exception leaves _handle_message_send (nothing there
\* catches it, the task is left as it is) and _handle_jsonrpc answers -32603
HandlerRaise(t) ==
    /\ Running(t)
    /\ calls' = [calls EXCEPT ![t].pc = "returned", ![t].raised = TRUE,
                              ![t].reply = ErrorResponse(calls[t].id, -32603)]
    /\ UNCHANGED <<require_auth, tasks, lastReply, nCalls, lastCall, nEvents>>
    /\ UNCHANGED notTask

\* tasks/get
TasksGet ==
    /\ nCalls < MaxCalls
    /\ \E auth \in {"none", "bearer"}, claims \in BOOLEAN, id \in 0..MaxTasks :
          LET rid == CallId(nCalls + 1) IN
          /\ PreRoute("ok", auth, claims, "tasks/get") = 0
          /\ lastReply' = IF id = 0 \/ id \notin 1..Len(tasks)
                          THEN ErrorResponse(rid, -32603)
                          ELSE ResultResponse(rid, to_dict(tasks[id]))
          /\ lastCall' = Request("ok", auth, claims, "tasks/get", id)
    /\ nCalls' = nCalls + 1
    /\ UNCHANGED <<require_auth, tasks, calls, nEvents>>
    /\ UNCHANGED notTask

\* (mutant) a task that has reached a terminal state is left as it is
CancelTaskUnlessTerminal(task) ==
    IF task.state \in {"completed", "canceled", "failed"} THEN task
    ELSE [task EXCEPT !.state = "canceled"]

\* task.status = {"state": "canceled"}
CancelTask(task) == [task EXCEPT !.state = "canceled"]

\* tasks/cancel
TasksCancel ==
    /\ nCalls < MaxCalls
    /\ \E auth \in {"none", "bearer"}, claims \in BOOLEAN, id \in 0..MaxTasks :
          LET rid == CallId(nCalls + 1) IN
          /\ PreRoute("ok", auth, claims, "tasks/cancel") = 0
          /\ IF id = 0 \/ id \notin 1..Len(tasks)
             THEN /\ lastReply' = ErrorResponse(rid, -32603)
                  /\ UNCHANGED tasks
             ELSE /\ tasks' = Write(tasks, id, CancelTask(tasks[id]))
                  /\ lastReply' = ResultResponse(rid, to_dict(CancelTask(tasks[id])))
          /\ lastCall' = Request("ok", auth, claims,
                                 "tasks/cancel", id)
    /\ nCalls' = nCalls + 1
    /\ UNCHANGED <<require_auth, calls, nEvents>>
    /\ UNCHANGED notTask

TaskInit ==
    /\ require_auth \in BOOLEAN
    /\ tasks = <<>>
    /\ calls = <<>>
    /\ lastReply = NoReply
    /\ nCalls = 0
    /\ lastCall = NoCall
    /\ nEvents = 0

TaskNext ==
    \/ DispatchRejected
    \/ MessageSend
    \/ \E t \in 1..MaxTasks : HandlerStatus(t)
    \/ \E t \in 1..MaxTasks : HandlerArtifact(t)
    \/ \E t \in 1..MaxTasks : HandlerResult(t)
    \/ \E t \in 1..MaxTasks : HandlerEnd(t)
    \/ \E t \in 1..MaxTasks : HandlerRaise(t)
    \/ TasksGet
    \/ TasksCancel

(* ====================================================================== *)
(* Payment Verification Gate: MoltbotAgent.handle_message                  *)
(* ====================================================================== *)

\* config.agent_id of the provider
AgentId == "provider"
Absent == "absent"

FreeActions == {"get_price", "get_balance", "discover_agents", "create_payment_request"}
\* "service_request", and an action none of the branches names
GatedActions == {"service_request", "unknown_action"}

\* incoming messages: the payment fields matter only where the gate reads them
\* (has_amount says whether the payment_amount key is present)
GatedMessages ==
    {m \in [action : GatedActions, from_agent : {Absent, "alice"},
            has_amount : BOOLEAN, payment_amount : 0..MaxPrice,
            payment_id : {Absent, "pay-1"}, transaction_id : {Absent, "tx-1"},
            skip_payment : BOOLEAN] :
        ~m.has_amount => m.payment_amount = 0}
FreeMessages ==
    [action : FreeActions, from_agent : {Absent}, has_amount : {FALSE},
     payment_amount : {0}, payment_id : {Absent}, transaction_id : {Absent},
     skip_payment : {FALSE}]
Messages == GatedMessages \cup FreeMessages

\* Transaction records of the wallet history
Transactions ==
    [from_wallet : {"alice", "bob"}, to_wallet : {AgentId, "other"}, amount : 1..MaxPrice]

\* dict.get(key, default)
Get(value, default) == IF value = Absent THEN default ELSE value

\* history[-10:], oldest first
RecentWindow == 10
\* (mutant) the whole history is searched
WholeHistory(h, n) == h
LastN(h, n) == IF Len(h) <= n THEN h ELSE SubSeq(h, Len(h) - n + 1, Len(h))

\* a transfer another agent made to the provider
OtherPayment == [from_wallet |-> "bob", to_wallet |-> AgentId, amount |-> MaxPrice]

\* wallet histories of 10 to MaxLedger records, as long as and longer than the
\* window: other agents' payments and one record of any kind at any place
LedgerHistories ==
    {[i \in 1..n |-> IF i = k THEN tx ELSE OtherPayment] :
        n \in RecentWindow..MaxLedger, k \in 1..MaxLedger,
        tx \in {t \in Transactions : t.from_wallet = "alice"}}

\* Check 1 of _verify_payment_received: the offered amount is too low
Underpaid(payment_amount, price) == payment_amount > 0 /\ payment_amount < price

\* (mutant) a payment id is never taken as proof
ByPaymentIdNever(payment_id) == FALSE

\* Check 2: a payment id is given
ByPaymentId(payment_id) == payment_id # ""

\* Check 3: a transaction of the window pays this provider enough
HistoryMatches(history, from_agent, price) ==
    \E i \in 1..Len(LastN(history, RecentWindow)) :
        LET tx == LastN(history, RecentWindow)[i] IN
        /\ tx.from_wallet = from_agent
        /\ tx.to_wallet = AgentId
        /\ tx.amount >= price

\* TokenBankClient.get_transaction_history: the records of the wallet, or the
\* empty list when the request fails (non-200 answer, or an exception, which
\* the client logs and swallows)
get_transaction_history(history, fault) == IF fault THEN <<>> ELSE history

\* (mutant) a lookup that gave nothing is taken as payment
VerifyPaymentReceivedFailOpen(message, price, lookup) ==
    LET from_agent == Get(message.from_agent, "")
        payment_amount == IF message.has_amount THEN message.payment_amount ELSE 0
        payment_id == Get(message.payment_id, Get(message.transaction_id, ""))
        seen == IF from_agent # "" THEN lookup ELSE <<>>
    IN  IF message.skip_payment
        THEN [verified |-> TRUE, error |-> "", names |-> {}, asked |-> FALSE, seen |-> <<>>]
        ELSE IF Underpaid(payment_amount, price)
             THEN [verified |-> FALSE, error |-> "too_low",
                   names |-> {payment_amount, price}, asked |-> FALSE, seen |-> <<>>]
        ELSE IF ByPaymentId(payment_id)
             THEN [verified |-> TRUE, error |-> "", names |-> {}, asked |-> FALSE, seen |-> <<>>]
        ELSE IF from_agent # ""
                  /\ (lookup = <<>> \/ HistoryMatches(lookup, from_agent, price))
             THEN [verified |-> TRUE, error |-> "", names |-> {}, asked |-> TRUE, seen |-> seen]
        ELSE [verified |-> FALSE, error |-> "payment_required", names |-> {price},
              asked |-> from_agent # "", seen |-> seen]

\* _verify_payment_received(message): (verified, error), and whether the
\* Token Bank was asked. lookup is what get_transaction_history gives: the
\* history, or nothing when the lookup fails.
VerifyPaymentReceived(message, price, lookup) ==
    LET from_agent == Get(message.from_agent, "")
        payment_amount == IF message.has_amount THEN message.payment_amount ELSE 0
        payment_id == Get(message.payment_id, Get(message.transaction_id, ""))
        skip_payment == message.skip_payment
        seen == IF from_agent # "" THEN lookup ELSE <<>>
    IN  IF skip_payment
        THEN [verified |-> TRUE, error |-> "", names |-> {}, asked |-> FALSE, seen |-> <<>>]
        ELSE IF Underpaid(payment_amount, price)
             THEN [verified |-> FALSE, error |-> "too_low",
                   names |-> {payment_amount, price}, asked |-> FALSE, seen |-> <<>>]
        ELSE IF ByPaymentId(payment_id)
             THEN [verified |-> TRUE, error |-> "", names |-> {}, asked |-> FALSE, seen |-> <<>>]
        ELSE IF from_agent # "" /\ HistoryMatches(lookup, from_agent, price)
             THEN [verified |-> TRUE, error |-> "", names |-> {}, asked |-> TRUE, seen |-> seen]
        ELSE [verified |-> FALSE, error |-> "payment_required", names |-> {price},
              asked |-> from_agent # "", seen |-> seen]

NoVerdict == [verified |-> FALSE, error |-> "not_run", names |-> {}, asked |-> FALSE,
              seen |-> <<>>]
NoResult == [action |-> "none", error |-> "", names |-> {}, required_payment |-> 0,
             agent_id |-> "none"]

\* (mutant) the rejection is reported as a plain error
PlainError(verdict, price) ==
    [action |-> "none", error |-> verdict.error, names |-> {}, required_payment |-> 0,
     agent_id |-> "none"]

\* the JSON of the result event that reports a rejection
PaymentRejected(verdict, price) ==
    [action |-> "payment_rejected", error |-> verdict.error, names |-> verdict.names,
     required_payment |-> price, agent_id |-> AgentId]
Idle == [pc |-> "idle", message |-> CHOOSE m \in FreeMessages : TRUE,
         verdict |-> NoVerdict, fault |-> FALSE, again |-> FALSE, events |-> <<>>,
         worked |-> FALSE, result |-> NoResult]

\* the payment evidence a message presents to the gate: the payment id Check 2
\* reads, else the sender whose transfer Check 3 looks for
Evidence(message) ==
    LET payment_id == Get(message.payment_id, Get(message.transaction_id, ""))
        from_agent == Get(message.from_agent, "")
    IN  IF payment_id # "" THEN <<"payment_id", payment_id>>
        ELSE IF from_agent # "" THEN <<"history", from_agent>>
        ELSE <<"none", "">>

\* the request before was served on the evidence this message presents: the
\* same payment id, or the same sender with the history the gate then saw
PresentedAgain(previous, message) ==
    /\ previous.pc = "done" /\ previous.worked /\ previous.verdict.verified
    /\ ~previous.message.skip_payment /\ ~message.skip_payment
    /\ Evidence(message) # <<"none", "">>
    /\ Evidence(message) = Evidence(previous.message)
    /\ Evidence(message)[1] = "history" => previous.verdict.seen = wallet_history

\* (mutant) the rejection does not stop the request
AfterGateAlwaysWorks(verified) == "work"

\* the branch handle_message takes after the gate has answered
AfterGate(verified) == IF verified THEN "work" ELSE "reject"

\* whether handle_message runs the gate for this message
NeedsGate(message, price) == message.action \in GatedActions /\ price > 0

\* a message arrives and handle_message starts
Deliver ==
    /\ run.pc \in {"idle", "done"}
    /\ \E m \in Messages :
          run' = [pc |-> "entered", message |-> m, verdict |-> NoVerdict,
                  fault |-> FALSE, again |-> PresentedAgain(run, m),
                  events |-> <<>>, worked |-> FALSE, result |-> NoResult]
    /\ UNCHANGED <<service_price, wallet_history>>
    /\ UNCHANGED notGate

\* the free actions: one result event, no payment
AnswerFree ==
    /\ run.pc = "entered" /\ run.message.action \in FreeActions
    /\ run' = [run EXCEPT !.pc = "done", !.events = Append(@, "free_result")]
    /\ UNCHANGED <<service_price, wallet_history>>
    /\ UNCHANGED notGate

\* lines 804-805 and 830-831: await _verify_payment_received(message); the
\* Token Bank answers the history lookup or fails (run.fault, when the gate
\* got as far as asking)
VerifyPayment ==
    /\ run.pc = "entered" /\ NeedsGate(run.message, service_price)
    /\ \E fault \in BOOLEAN :
          LET lookup == get_transaction_history(wallet_history, fault)
              v == VerifyPaymentReceived(run.message, service_price, lookup) IN
          run' = [run EXCEPT !.pc = AfterGate(v.verified), !.verdict = v,
                             !.fault = fault /\ v.asked]
    /\ UNCHANGED <<service_price, wallet_history>>
    /\ UNCHANGED notGate

\* lines 806-821 and 832-847: the payment_rejected result, then return
Reject ==
    /\ run.pc = "reject"
    /\ run' = [run EXCEPT !.pc = "done", !.events = Append(@, "payment_rejected"),
                          !.result = PaymentRejected(run.verdict, service_price)]
    /\ UNCHANGED <<service_price, wallet_history>>
    /\ UNCHANGED notGate

\* lines 824-825 and 849-850: handle_request(message) runs and its events
\* are passed on
HandleRequest ==
    /\ \/ run.pc = "work"
       \/ run.pc = "entered" /\ run.message.action \in GatedActions
          /\ ~NeedsGate(run.message, service_price)
    /\ run' = [run EXCEPT !.pc = "done", !.worked = TRUE,
                          !.events = Append(@, "work_result")]
    /\ UNCHANGED <<service_price, wallet_history>>
    /\ UNCHANGED notGate

\* the Token Bank records a transfer that involves the provider's wallet
BankTransfer ==
    /\ Len(wallet_history) < MaxHistory
    /\ \E tx \in Transactions : wallet_history' = Append(wallet_history, tx)
    /\ run' = [run EXCEPT !.again = @ /\ Evidence(run.message)[1] = "payment_id"]
    /\ UNCHANGED service_price
    /\ UNCHANGED notGate

GateInit ==
    /\ service_price \in 0..MaxPrice
    /\ wallet_history = <<>>
    /\ run = Idle

\* a provider whose wallet already has a history
LedgerInit ==
    /\ service_price \in 1..MaxPrice
    /\ wallet_history \in LedgerHistories
    /\ run = Idle

LedgerNext ==
    \/ Deliver
    \/ AnswerFree
    \/ VerifyPayment
    \/ Reject
    \/ HandleRequest

GateNext ==
    \/ Deliver
    \/ AnswerFree
    \/ VerifyPayment
    \/ Reject
    \/ HandleRequest
    \/ BankTransfer

(* ====================================================================== *)
(* Bid Auction Engine: collecting bids                                     *)
(* ====================================================================== *)

\* fetch_real_bids of aex/ui/main.py, fetch_real_bids and fetch_payment_bids
\* of ui/nicegui_app.py
Variants == {"aex_legal", "nicegui_legal", "nicegui_payment"}

\* the three agents of each function's list
NumProviders == 3
Providers == 1..NumProviders

\* httpx timeout of one call, in seconds
PerCallTimeout == 10
\* the time a call that does not time out may take
AnswerTimes == 1..(PerCallTimeout - 1)

\* What a text part of an agent message may hold: text that is no JSON, JSON
\* that is no object, an object with another action, a bid_response whose
\* "bid" is no object, a bid_response with a bid object.
PartKinds == {"bad_json", "not_object", "other_action", "bid_not_object", "bid"}
\* parts on which .get raises AttributeError
RaisingParts == {"not_object", "bid_not_object"}

RECURSIVE SeqsUpTo(_, _)
SeqsUpTo(S, n) ==
    IF n = 0 THEN {<<>>}
    ELSE SeqsUpTo(S, n - 1) \cup
         {Append(q, x) : q \in {r \in SeqsUpTo(S, n - 1) : Len(r) = n - 1}, x \in S}

\* what one call gives: no answer in time, a transport error, a status other
\* than 200, a body that is no JSON, or a 200 answer with its text parts
Answers ==
    [kind : {"timeout", "transport_error", "non200", "bad_body"}, parts : {<<>>}]
    \cup [kind : {"ok"}, parts : SeqsUpTo(PartKinds, MaxParts)]

LegalNames == <<"Budget Legal AI", "Standard Legal AI", "Premium Legal AI">>
PaymentNames == <<"LegalPay", "ContractPay", "CompliancePay">>
SimulatedNames == <<"Budget Legal AI (SIMULATED)", "Standard Legal AI (SIMULATED)",
                    "Premium Legal AI (SIMULATED)">>

\* the bid appended for a bid_response of the agent called
RealBid(v, p) ==
    [endpoint |-> p,
     provider_name |-> IF v = "nicegui_payment" THEN PaymentNames[p] ELSE LegalNames[p]]

\* the loops over the messages and parts of one answer: the bids appended
\* until a part raises
RECURSIVE ScanParts(_, _, _, _)
ScanParts(parts, k, v, p) ==
    IF k > Len(parts) THEN <<>>
    ELSE IF parts[k] \in RaisingParts THEN <<>>
    ELSE IF parts[k] = "bid" THEN <<RealBid(v, p)>> \o ScanParts(parts, k + 1, v, p)
    ELSE ScanParts(parts, k + 1, v, p)

BidsOf(answer, v, p) ==
    IF answer.kind = "ok" THEN ScanParts(answer.parts, 1, v, p) ELSE <<>>

\* the exception the processing of one answer raises inside the try block
FaultOf(answer) ==
    CASE answer.kind = "timeout" -> "TimeoutException"
      [] answer.kind = "transport_error" -> "ConnectError"
      [] answer.kind = "bad_body" -> "JSONDecodeError"
      [] answer.kind = "ok" /\ (\E k \in 1..Len(answer.parts) :
                                    answer.parts[k] \in RaisingParts) -> "AttributeError"
      [] OTHER -> "none"

\* (mutant) only transport errors are caught
CaughtTransportOnly(exc) == exc \in {"ConnectError"}

\* `except Exception` around one provider's call
Caught(exc) == exc \in {"TimeoutException", "ConnectError", "JSONDecodeError", "AttributeError"}

\* simulate_bids of aex/ui/main.py
simulate_bids ==
    [p \in Providers |-> [endpoint |-> p, provider_name |-> SimulatedNames[p]]]

\* the fallback of fetch_payment_bids (nicegui_app.py lines 313-319)
FallbackPaymentBids ==
    [p \in Providers |-> [endpoint |-> 0, provider_name |-> PaymentNames[p]]]

\* what the function returns for the bids its loop collected
ReturnedBids(v, bids) ==
    IF bids # <<>> THEN bids
    ELSE IF v = "aex_legal" THEN simulate_bids
    ELSE IF v = "nicegui_payment" THEN FallbackPaymentBids
    ELSE <<>>

\* the well-formed bids of one answer: its bid parts that no faulty part precedes
WellFormedBids(answer) ==
    IF answer.kind # "ok" THEN 0
    ELSE Cardinality({k \in 1..Len(answer.parts) :
            /\ answer.parts[k] = "bid"
            /\ \A j \in 1..(k - 1) : answer.parts[j] \notin RaisingParts})

NoRound ==
    [pc |-> "idle", i |-> 1, bids |-> <<>>, elapsed |-> 0, result |-> <<>>,
     outcome |-> [p \in Providers |-> "not_called"],
     delivered |-> [p \in Providers |-> 0]]

\* the function is called
StartRound ==
    /\ round.pc \in {"idle", "done"}
    /\ round' = [NoRound EXCEPT !.pc = "calling"]
    /\ UNCHANGED variant
    /\ UNCHANGED notAuction

\* One turn of the loop over the agents: the call to agent i returns after
\* `took` seconds and its answer is processed; after the last agent the
\* function returns. outcome and delivered record what the agent sent.
CallProvider ==
    /\ round.pc = "calling"
    /\ \E answer \in Answers, took \in 1..PerCallTimeout :
          /\ answer.kind = "timeout" <=> took = PerCallTimeout
          /\ LET p == round.i
                 bids == round.bids \o BidsOf(answer, variant, p)
                 exc == FaultOf(answer)
             IN  IF exc # "none" /\ ~Caught(exc)
                 THEN round' = [round EXCEPT !.pc = "aborted"]
                 ELSE round' = [round EXCEPT
                         !.pc = IF p = NumProviders THEN "done" ELSE "calling",
                         !.i = p + 1,
                         !.bids = bids,
                         !.elapsed = @ + took,
                         !.result = IF p = NumProviders
                                    THEN ReturnedBids(variant, bids) ELSE <<>>,
                         !.outcome[p] = answer.kind,
                         !.delivered[p] = WellFormedBids(answer)]
    /\ UNCHANGED variant
    /\ UNCHANGED notAuction

AuctionInit ==
    /\ variant \in Variants
    /\ round = NoRound

AuctionNext ==
    \/ StartRound
    \/ CallProvider

(* ====================================================================== *)
(* Bid Auction Engine: evaluate_bids                                       *)
(* ====================================================================== *)

\* Scores are exact rationals [n, d] in lowest terms with d > 0. trust_score,
\* confidence and the weights are counted in hundredths.
RECURSIVE GCD(_, _)
GCD(a, b) == IF b = 0 THEN a ELSE GCD(b, a % b)
R(n, d) == [n |-> n \div GCD(n, d), d |-> d \div GCD(n, d)]
RAdd(a, b) == R(a.n * b.d + b.n * a.d, a.d * b.d)
RMul(a, b) == R(a.n * b.n, a.d * b.d)
RLeq(a, b) == a.n * b.d <= b.n * a.d
REq(a, b) == a.n * b.d = b.n * a.d
Hundredths(x) == R(x, 100)

\* "mesop": evaluate_bids of aex/ui/main.py and of ui/main.py (the same text);
\* "nicegui": evaluate_bids of ui/nicegui_app.py
Implementations == {"mesop", "nicegui"}
Strategies == {"lowest_price", "best_quality", "balanced"}

\* the bids handed in: provider_id is the position in the list
BidValues ==
    [price : {0, 10, 30}, trust_score : {0, 50, 100}, confidence : {0, 100},
     estimated_minutes : {0, 60}]
WithId(values, i) ==
    [provider_id |-> i, price |-> values.price, trust_score |-> values.trust_score,
     confidence |-> values.confidence, estimated_minutes |-> values.estimated_minutes]
BidSets ==
    {[i \in 1..Len(q) |-> WithId(q[i], i)] : q \in SeqsUpTo(BidValues, MaxBids) \ {<<>>}}

\* the three bids of the end-to-end scenario, in any input order and with any
\* of some estimated durations
ScenarioValues ==
    <<[price |-> 12, trust_score |-> 60, confidence |-> 80],
      [price |-> 18, trust_score |-> 80, confidence |-> 85],
      [price |-> 30, trust_score |-> 95, confidence |-> 95]>>
ScenarioMinutes == {0, 30, 60, 120}
ScenarioOrders ==
    {f \in [1..Len(ScenarioValues) -> 1..Len(ScenarioValues)] :
        \A i, j \in 1..Len(ScenarioValues) : f[i] = f[j] => i = j}
ScenarioBidSets ==
    {[i \in 1..Len(ScenarioValues) |->
         [provider_id |-> i, price |-> ScenarioValues[f[i]].price,
          trust_score |-> ScenarioValues[f[i]].trust_score,
          confidence |-> ScenarioValues[f[i]].confidence,
          estimated_minutes |-> m[i]]] :
       f \in ScenarioOrders, m \in [1..Len(ScenarioValues) -> ScenarioMinutes]}

\* (mutant) a weight table whose rows do not add up to 1
WeightsOff(impl, strategy) ==
    [price |-> 70, trust |-> 20, confidence |-> 10, sla |-> 10]

\* the weights table and weights.get(strategy, weights["balanced"])
Weights(impl, strategy) ==
    IF impl = "mesop"
    THEN CASE strategy = "lowest_price" ->
                  [price |-> 60, trust |-> 20, confidence |-> 10, sla |-> 10]
           [] strategy = "best_quality" ->
                  [price |-> 10, trust |-> 40, confidence |-> 30, sla |-> 20]
           [] OTHER -> [price |-> 30, trust |-> 30, confidence |-> 25, sla |-> 15]
    ELSE CASE strategy = "lowest_price" ->
                  [price |-> 70, trust |-> 20, confidence |-> 10, sla |-> 0]
           [] strategy = "best_quality" ->
                  [price |-> 20, trust |-> 50, confidence |-> 30, sla |-> 0]
           [] OTHER -> [price |-> 40, trust |-> 35, confidence |-> 25, sla |-> 0]

Max(S) == CHOOSE x \in S : \A y \in S : y <= x
Min(S) == CHOOSE x \in S : \A y \in S : x <= y
Prices(bids) == {bids[i].price : i \in 1..Len(bids)}

\* (mutant) the price score is not inverted: the dearest bid gets 1
PriceScoreNotInverted(impl, bids, bid) ==
    R(bid.price, IF Max(Prices(bids)) # 0 THEN Max(Prices(bids)) ELSE 1)

\* price_score of one bid within its bid set
PriceScore(impl, bids, bid) ==
    IF impl = "mesop"
    THEN LET max_price == Max(Prices(bids))
             min_price == Min(Prices(bids))
             price_range == IF max_price # min_price THEN max_price - min_price ELSE 1
         IN  R(price_range - (bid.price - min_price), price_range)
    ELSE LET max_price == IF Max(Prices(bids)) # 0 THEN Max(Prices(bids)) ELSE 1
         IN  R(max_price - bid.price, max_price)

\* sla_score = min(1.0, 30 / max(estimated_minutes, 1))
SlaScore(bid) ==
    LET minutes == IF bid.estimated_minutes > 1 THEN bid.estimated_minutes ELSE 1
    IN  IF 30 <= minutes THEN R(30, minutes) ELSE R(1, 1)

\* bid["score"]
Score(impl, strategy, bids, bid) ==
    LET w == Weights(impl, strategy)
        base == RAdd(RAdd(RMul(Hundredths(w.price), PriceScore(impl, bids, bid)),
                          RMul(Hundredths(w.trust), Hundredths(bid.trust_score))),
                     RMul(Hundredths(w.confidence), Hundredths(bid.confidence)))
    IN  IF impl = "mesop" THEN RAdd(base, RMul(Hundredths(w.sla), SlaScore(bid)))
        ELSE base

Scored(bid, score) ==
    [provider_id |-> bid.provider_id, price |-> bid.price,
     trust_score |-> bid.trust_score, confidence |-> bid.confidence,
     estimated_minutes |-> bid.estimated_minutes, score |-> score]

\* (mutant) a bid goes before the bids of equal score already placed
InsertBeforeEqual(sorted, x) ==
    LET before == {k \in 1..Len(sorted) : ~RLeq(sorted[k].score, x.score)}
        n == Cardinality(before)
    IN  SubSeq(sorted, 1, n) \o <<x>> \o SubSeq(sorted, n + 1, Len(sorted))

\* one step of sorted(..., reverse=True), which is stable: a bid goes after
\* every bid already placed whose score is not lower
InsertDescending(sorted, x) ==
    LET before == {k \in 1..Len(sorted) : RLeq(x.score, sorted[k].score)}
        n == Cardinality(before)
    IN  SubSeq(sorted, 1, n) \o <<x>> \o SubSeq(sorted, n + 1, Len(sorted))

RECURSIVE SortedByScore(_)
SortedByScore(bids) ==
    IF bids = <<>> THEN <<>>
    ELSE InsertDescending(SortedByScore(SubSeq(bids, 1, Len(bids) - 1)), bids[Len(bids)])

\* evaluate_bids(bids, strategy) for a bid set that is not empty
evaluate_bids(impl, bids, strategy) ==
    SortedByScore([i \in 1..Len(bids) |->
                      Scored(bids[i], Score(impl, strategy, bids, bids[i]))])

NoRanking ==
    [pc |-> "idle", impl |-> "mesop", strategy |-> "balanced", bids |-> <<>>,
     price_scores |-> <<>>, ranked |-> <<>>]

\* evaluate_bids is called on a bid set and returns
EvaluateBids ==
    /\ ranking.pc = "called"
    /\ ranking' = [ranking EXCEPT
          !.pc = "returned",
          !.price_scores = [i \in 1..Len(ranking.bids) |->
                               PriceScore(ranking.impl, ranking.bids, ranking.bids[i])],
          !.ranked = evaluate_bids(ranking.impl, ranking.bids, ranking.strategy)]
    /\ UNCHANGED notRank

RankInit ==
    \E impl \in Implementations, strategy \in Strategies, bids \in BidSets :
        ranking = [NoRanking EXCEPT !.pc = "called", !.impl = impl,
                                    !.strategy = strategy, !.bids = bids]

RankNext == EvaluateBids

ScenarioInit ==
    \E impl \in Implementations, strategy \in Strategies, bids \in ScenarioBidSets :
        ranking = [NoRanking EXCEPT !.pc = "called", !.impl = impl,
                                    !.strategy = strategy, !.bids = bids]

(* ====================================================================== *)
(* Payment provider agent: cart mandate and receipt                        *)
(* ====================================================================== *)

\* Amounts are counted in cents, percents in tenths of a percent, so that
\* amount * percent is an amount in thousandths of a cent.
Amounts == {0, 1, 20, 40, 60, 2500, 2540}
\* base_fee_percent of LegalPay, ContractPay, CompliancePay
FeePercents == {20, 25, 30}
\* the rewards of their category_rewards tables that the demo uses
RewardPercents == {10, 15, 30, 40}
PerMille == 1000

\* (mutant) a value is cut to whole cents instead of rounded
TruncateCents(x, tie_up) ==
    IF x >= 0 THEN x \div PerMille ELSE -((-x) \div PerMille)

\* round(value, 2) of a value of x thousandths of a cent, in cents. A value
\* that lies exactly between two cents goes where its binary floating point
\* representation lies, which tie_up stands for.
RoundCents(x, tie_up) ==
    LET a == IF x >= 0 THEN x ELSE -x
        q == a \div PerMille
        r == a % PerMille
        m == IF 2 * r > PerMille \/ (2 * r = PerMille /\ tie_up) THEN q + 1 ELSE q
    IN  IF x >= 0 THEN m ELSE -m

\* fee_amount, reward_amount and amount + net_fee, in thousandths of a cent
FeeAmount(amount, fee) == amount * fee
RewardAmount(amount, reward) == amount * reward
TotalWithFee(amount, fee, reward) ==
    amount * PerMille + (FeeAmount(amount, fee) - RewardAmount(amount, reward))

\* generate_cart_mandate: the display items and the total of the payment
\* request, in cents
generate_cart_mandate(amount, fee, reward, ties) ==
    [display_items |-> <<amount,
                         RoundCents(FeeAmount(amount, fee), ties[1]),
                         RoundCents(-RewardAmount(amount, reward), ties[2])>>,
     total |-> RoundCents(TotalWithFee(amount, fee, reward), ties[3])]

\* process_payment and generate_payment_receipt: result.amount_charged is
\* request.amount + net_cost, not rounded; in thousandths of a cent
generate_payment_receipt(amount, fee, reward) ==
    [status |-> "SUCCESS",
     amount |-> amount * PerMille
                   + (FeeAmount(amount, fee) - RewardAmount(amount, reward))]

NoCart == [display_items |-> <<>>, total |-> 0]
NoReceipt == [status |-> "none", amount |-> 0]
NoPayAgent ==
    [base_fee_percent |-> 20, reward |-> 10, amount |-> 0,
     cart |-> NoCart, receipt |-> NoReceipt, reply |-> "none"]

\* handle_message, action "bid": the bid_response with the cart mandate
PaymentBid ==
    /\ \E ties \in [1..3 -> BOOLEAN] :
          payagent' = [payagent EXCEPT
              !.cart = generate_cart_mandate(payagent.amount, payagent.base_fee_percent,
                                             payagent.reward, ties),
              !.reply = "bid_response"]
    /\ UNCHANGED notPay

\* handle_message, action "process": the payment_result with the receipt
PaymentProcess ==
    /\ payagent' = [payagent EXCEPT
          !.receipt = generate_payment_receipt(payagent.amount,
                          payagent.base_fee_percent, payagent.reward),
          !.reply = "payment_result"]
    /\ UNCHANGED notPay

\* handle_message, any other action or a text that is no JSON: an error result
PaymentBadRequest ==
    /\ payagent' = [payagent EXCEPT !.reply = "error"]
    /\ UNCHANGED notPay

PayInit ==
    \E amount \in Amounts, fee \in FeePercents, reward \in RewardPercents :
        payagent = [NoPayAgent EXCEPT !.amount = amount, !.base_fee_percent = fee,
                                      !.reward = reward]

PayNext ==
    \/ PaymentBid
    \/ PaymentProcess
    \/ PaymentBadRequest

(* ====================================================================== *)
(* Mandate chain: pay_for_service_with_steps over AP2Client                *)
(* ====================================================================== *)

Stages == <<"intent", "cart", "payment", "process">>

\* What the Token Bank answers to a mandate creation: 201 with the mandate,
\* another status, or no usable answer (transport error, Token Bank not found
\* in the registry, a body without the expected keys), which raises.
BankAnswers == {"created", "refused", "fault"}

\* What it answers to /ap2/process: success with a receipt, failure with a
\* receipt that carries an error, failure without a receipt, an error status
\* whose body is no JSON, or no answer at all.
LedgerAnswers ==
    {"success", "failure_with_receipt", "failure_without_receipt",
     "error_status_not_json", "transport_error"}

NoChainReceipt == [present |-> FALSE, payment_status |-> "none", error |-> "none"]

\* AP2Client.process_payment: (success, receipt, transaction id), or raises
process_payment(answer) ==
    CASE answer = "success" ->
           [raised |-> FALSE, success |-> TRUE,
            receipt |-> [present |-> TRUE, payment_status |-> "success", error |-> "none"]]
      [] answer = "failure_with_receipt" ->
           [raised |-> FALSE, success |-> FALSE,
            receipt |-> [present |-> TRUE, payment_status |-> "failure",
                         error |-> "code_and_message"]]
      [] answer = "failure_without_receipt" ->
           [raised |-> FALSE, success |-> FALSE, receipt |-> NoChainReceipt]
      [] OTHER ->
           [raised |-> TRUE, success |-> FALSE, receipt |-> NoChainReceipt]

NoChain ==
    [pc |-> "idle", attempted |-> <<>>, produced |-> {}, ledger |-> "none",
     success |-> FALSE, receipt |-> NoChainReceipt, failed_at |-> "none"]

\* what the caller holds after a return: (success, receipt)
Outcome(c) == [success |-> c.success, receipt |-> c.receipt]

\* (mutant) the next stage is entered whether or not the mandate was produced
AfterCreateUnchecked(produced, next) == next

\* `if not intent: return False, None`, and the same after cart and payment
AfterCreate(produced, next) == IF produced THEN next ELSE "returned"

\* the outcomes known once a call has reached frame c
Recorded(c) ==
    IF c.pc = "returned" THEN outcomes \cup {<<Outcome(c), c.failed_at>>} ELSE outcomes

\* pay_for_service_with_steps is called; it returns at once without an AP2
\* client or when the balance does not cover the amount
ChainCall ==
    /\ chain.pc \in {"idle", "returned", "raised"}
    /\ \E has_client \in BOOLEAN, can_afford \in BOOLEAN :
          LET c == [NoChain EXCEPT
                      !.pc = IF has_client /\ can_afford THEN Stages[1] ELSE "returned"]
          IN  /\ chain' = c
              /\ outcomes' = Recorded(c)
    /\ UNCHANGED notChain

\* the frame after the mandate of stage k was requested and the answer looked at
AfterAnswer(c, k, answer) ==
    LET produced == answer = "created"
    IN  [c EXCEPT
           !.pc = IF answer = "fault" THEN "raised"
                  ELSE AfterCreate(produced, Stages[k + 1]),
           !.attempted = Append(@, Stages[k]),
           !.produced = IF produced THEN @ \cup {Stages[k]} ELSE @,
           !.failed_at = IF produced THEN "none" ELSE Stages[k]]

\* step 1: create_intent_mandate
IntentStage ==
    /\ chain.pc = Stages[1]
    /\ \E answer \in BankAnswers :
          /\ chain' = AfterAnswer(chain, 1, answer)
          /\ outcomes' = Recorded(AfterAnswer(chain, 1, answer))
    /\ UNCHANGED notChain

\* step 2: create_cart_mandate
CartStage ==
    /\ chain.pc = Stages[2]
    /\ \E answer \in BankAnswers :
          /\ chain' = AfterAnswer(chain, 2, answer)
          /\ outcomes' = Recorded(AfterAnswer(chain, 2, answer))
    /\ UNCHANGED notChain

\* step 3: create_payment_mandate
PaymentStage ==
    /\ chain.pc = Stages[3]
    /\ \E answer \in BankAnswers :
          /\ chain' = AfterAnswer(chain, 3, answer)
          /\ outcomes' = Recorded(AfterAnswer(chain, 3, answer))
    /\ UNCHANGED notChain

\* step 4: process_payment and the return of (success, receipt)
ProcessStage ==
    /\ chain.pc = Stages[4]
    /\ \E answer \in LedgerAnswers :
          LET r == process_payment(answer)
              c == [chain EXCEPT
                      !.pc = IF r.raised THEN "raised" ELSE "returned",
                      !.attempted = Append(@, Stages[4]),
                      !.produced = IF r.receipt.present THEN @ \cup {Stages[4]} ELSE @,
                      !.ledger = answer,
                      !.success = r.success,
                      !.receipt = r.receipt,
                      !.failed_at = IF r.success THEN "none" ELSE Stages[4]]
          IN  /\ chain' = c
              /\ outcomes' = Recorded(c)
    /\ UNCHANGED notChain

ChainInit ==
    /\ chain = NoChain
    /\ outcomes = {}

ChainNext ==
    \/ ChainCall
    \/ IntentStage
    \/ CartStage
    \/ PaymentStage
    \/ ProcessStage

(* ====================================================================== *)
(* Marketplace UI: the step handlers and the one-click workflow            *)
(* ====================================================================== *)

\* "steps": on_submit_work .. on_restart of ui/main.py, one click each;
\* "workflow": on_run_workflow of aex/ui/main.py, all steps in one handler
Apps == {"steps", "workflow"}

\* what a provider's bid carries: price in half cents, confidence in halves
\* of a hundredth, trust_score in hundredths
SessionBidValues ==
    {[price |-> p, confidence |-> c, estimated_minutes |-> m,
      trust_score |-> q[1], tier |-> q[2]] :
        p \in {20, 25}, c \in {170, 181}, m \in {10, 60},
        q \in {<<50, "VERIFIED">>, <<90, "TRUSTED">>}}

\* the list fetch_real_bids / simulate_bids returns: provider_id is the
\* position in it
ReceivedBids ==
    {[i \in 1..Len(q) |->
         [provider_id |-> i, price |-> q[i].price, confidence |-> q[i].confidence,
          estimated_minutes |-> q[i].estimated_minutes,
          trust_score |-> q[i].trust_score, tier |-> q[i].tier]] :
       q \in SeqsUpTo(SessionBidValues, MaxBids) \ {<<>>}}

\* round(x, 2) of a value given in halves of the second decimal place, in
\* the same unit
RoundHalves(x, tie_up) ==
    IF x % 2 = 0 THEN x
    ELSE IF tie_up THEN x + 1 ELSE x - 1

\* the confidence and duration on_run_workflow scores every bid with
AssumedConfidence == 170
AssumedMinutes == 10

NoWinner == [provider_id |-> 0, tier |-> "none", agreed_price |-> 0]
NoSession ==
    [app |-> "steps", bid_strategy |-> "balanced", phase |-> "idle",
     received |-> <<>>, used |-> <<>>, bids |-> <<>>, task_bids |-> <<>>,
     evaluated |-> <<>>, selected_bid_index |-> 0, winner |-> NoWinner,
     trace |-> <<>>]

\* the argument evaluate_bids gets for one bid dict (confidence in hundredths)
AsScored(b) ==
    [provider_id |-> b.provider_id, price |-> b.price, trust_score |-> b.trust_score,
     confidence |-> b.confidence \div 2, estimated_minutes |-> b.estimated_minutes]

\* evaluate_bids on the bid dicts: the dicts come back with their keys and a
\* score, in ranking order. The score stays as computed: the copies the UI
\* keeps round it to three places, which changes no order.
EvaluatedDicts(used, strategy) ==
    LET ranked == evaluate_bids("mesop", [i \in 1..Len(used) |-> AsScored(used[i])], strategy)
    IN  [k \in 1..Len(ranked) |->
            [provider_id |-> ranked[k].provider_id,
             price |-> used[ranked[k].provider_id].price,
             confidence |-> used[ranked[k].provider_id].confidence,
             estimated_minutes |-> used[ranked[k].provider_id].estimated_minutes,
             trust_score |-> used[ranked[k].provider_id].trust_score,
             tier |-> used[ranked[k].provider_id].tier,
             score |-> ranked[k].score]]

\* state.bids[state.selected_bid_index]
WinningBid(bids, index) == bids[index + 1]

\* bid_dicts of on_run_workflow (lines 751-763), built from current_task.bids
WorkflowBidDicts(task_bids, received) ==
    [i \in 1..Len(task_bids) |->
        [provider_id |-> task_bids[i].provider_id, price |-> task_bids[i].price,
         confidence |-> AssumedConfidence, estimated_minutes |-> AssumedMinutes,
         trust_score |-> task_bids[i].trust_score, tier |-> task_bids[i].tier]]

\* on_submit_work (ui/main.py)
OnSubmitWork ==
    /\ session.app = "steps" /\ session.phase = "idle"
    /\ session' = [session EXCEPT !.phase = "bidding", !.bids = <<>>]
    /\ UNCHANGED notSession

\* on_simulate_bidding: the bids are fetched and stored with price and
\* confidence rounded to two places
OnSimulateBidding ==
    /\ session.app = "steps" /\ session.phase = "bidding"
    /\ \E raw \in ReceivedBids, price_up \in BOOLEAN, confidence_up \in BOOLEAN :
          session' = [session EXCEPT
              !.phase = "collected",
              !.received = raw,
              !.used = <<>>,
              !.bids = [i \in 1..Len(raw) |->
                          [provider_id |-> raw[i].provider_id,
                           price |-> RoundHalves(raw[i].price, price_up),
                           confidence |-> RoundHalves(raw[i].confidence, confidence_up),
                           estimated_minutes |-> raw[i].estimated_minutes,
                           trust_score |-> raw[i].trust_score,
                           tier |-> raw[i].tier,
                           score |-> R(0, 1)]]]
    /\ UNCHANGED notSession

\* on_evaluate_bids: state.bids is replaced by the ranking and the selection
\* goes back to the top
OnEvaluateBids ==
    /\ session.app = "steps" /\ session.phase = "collected"
    /\ LET bid_dicts == [i \in 1..Len(session.bids) |->
                           [provider_id |-> session.bids[i].provider_id,
                            price |-> session.bids[i].price,
                            confidence |-> session.bids[i].confidence,
                            estimated_minutes |-> session.bids[i].estimated_minutes,
                            trust_score |-> session.bids[i].trust_score,
                            tier |-> session.bids[i].tier]]
           evaluated == EvaluatedDicts(bid_dicts, session.bid_strategy)
       IN  session' = [session EXCEPT
              !.phase = "evaluated",
              !.used = bid_dicts,
              !.bids = [k \in 1..Len(evaluated) |->
                          [evaluated[k] EXCEPT
                              !.confidence = RoundHalves(evaluated[k].confidence, FALSE)]],
              !.selected_bid_index = 0]
    /\ UNCHANGED notSession

\* on_select_bid taking any key, whether or not a bid is shown at that place
OnSelectBidAnyKey(index) ==
    /\ session.app = "steps" /\ session.phase = "evaluated"
    /\ session' = [session EXCEPT !.selected_bid_index = index]
    /\ UNCHANGED notSession

\* on_select_bid: a click on the bid shown at place index
OnSelectBid(index) ==
    /\ session.app = "steps" /\ session.phase = "evaluated"
    /\ index \in 0..(Len(session.bids) - 1)
    /\ session' = [session EXCEPT !.selected_bid_index = index]
    /\ UNCHANGED notSession

\* on_award_contract
OnAwardContract ==
    /\ session.app = "steps" /\ session.phase = "evaluated"
    /\ session.bids # <<>>
    /\ LET winner == WinningBid(session.bids, session.selected_bid_index) IN
       session' = [session EXCEPT
          !.phase = "awarded",
          !.winner = [provider_id |-> winner.provider_id, tier |-> winner.tier,
                      agreed_price |-> winner.price],
          !.trace = <<"award">>]
    /\ UNCHANGED notSession

\* on_execute_work: the winner's agent is called
OnExecuteWork ==
    /\ session.app = "steps" /\ session.phase = "awarded"
    /\ session' = [session EXCEPT !.phase = "executed", !.trace = Append(@, "execute")]
    /\ UNCHANGED notSession

\* on_settle: fee and payout are computed
OnSettle ==
    /\ session.app = "steps" /\ session.phase = "executed"
    /\ session' = [session EXCEPT !.phase = "settled", !.trace = Append(@, "settle")]
    /\ UNCHANGED notSession

\* on_restart
OnRestart ==
    /\ session.app = "steps" /\ session.phase = "settled"
    /\ session' = [session EXCEPT
          !.phase = "idle", !.bid_strategy = "balanced", !.bids = <<>>,
          !.selected_bid_index = 0, !.winner = NoWinner]
    /\ UNCHANGED notSession

\* on_run_workflow, step 1: the bids are fetched; current_task.bids keeps
\* name, price, tier and trust score of each
RunCollect ==
    /\ session.app = "workflow" /\ session.phase \in {"idle", "settled"}
    /\ \E raw \in ReceivedBids :
          session' = [session EXCEPT
              !.phase = "collected",
              !.received = raw,
              !.used = <<>>,
              !.evaluated = <<>>,
              !.trace = <<>>,
              !.task_bids = [i \in 1..Len(raw) |->
                               [provider_id |-> raw[i].provider_id,
                                price |-> raw[i].price, tier |-> raw[i].tier,
                                trust_score |-> raw[i].trust_score,
                                score |-> R(0, 1)]]]
    /\ UNCHANGED notSession

\* step 2: the bids are scored and ranked
RunEvaluate ==
    /\ session.app = "workflow" /\ session.phase = "collected"
    /\ LET bid_dicts == WorkflowBidDicts(session.task_bids, session.received)
           evaluated == EvaluatedDicts(bid_dicts, session.bid_strategy)
       IN  session' = [session EXCEPT
              !.phase = "evaluated",
              !.used = bid_dicts,
              !.evaluated = evaluated,
              !.task_bids = [k \in 1..Len(evaluated) |->
                               [provider_id |-> evaluated[k].provider_id,
                                price |-> evaluated[k].price,
                                tier |-> evaluated[k].tier,
                                trust_score |-> evaluated[k].trust_score,
                                score |-> evaluated[k].score]]]
    /\ UNCHANGED notSession

\* step 3: winner = evaluated[0]
RunAward ==
    /\ session.app = "workflow" /\ session.phase = "evaluated"
    /\ session' = [session EXCEPT
          !.phase = "awarded",
          !.winner = [provider_id |-> session.evaluated[1].provider_id,
                      tier |-> session.evaluated[1].tier,
                      agreed_price |-> session.evaluated[1].price],
          !.trace = <<"award">>]
    /\ UNCHANGED notSession

\* step 4: call_agent_a2a(url, work_description)
RunExecute ==
    /\ session.app = "workflow" /\ session.phase = "awarded"
    /\ session' = [session EXCEPT !.phase = "executed", !.trace = Append(@, "execute")]
    /\ UNCHANGED notSession

\* steps 5 and 6: a payment provider is chosen and the payment is written
\* to the log
RunPay ==
    /\ session.app = "workflow" /\ session.phase = "executed"
    /\ session' = [session EXCEPT !.phase = "paid", !.trace = Append(@, "pay")]
    /\ UNCHANGED notSession

\* step 7: settlement
RunSettle ==
    /\ session.app = "workflow" /\ session.phase = "paid"
    /\ session' = [session EXCEPT !.phase = "settled", !.trace = Append(@, "settle")]
    /\ UNCHANGED notSession

SessionInit ==
    \E app \in Apps, strategy \in Strategies :
        session = [NoSession EXCEPT !.app = app, !.bid_strategy = strategy]

SessionNext ==
    \/ OnSubmitWork
    \/ OnSimulateBidding
    \/ OnEvaluateBids
    \/ \E index \in 0..(MaxBids - 1) : OnSelectBid(index)
    \/ OnAwardContract
    \/ OnExecuteWork
    \/ OnSettle
    \/ OnRestart
    \/ RunCollect
    \/ RunEvaluate
    \/ RunAward
    \/ RunExecute
    \/ RunPay
    \/ RunSettle

(* ====================================================================== *)
(* The agents' handlers: async generators that yield the events the       *)
(* server consumes (base_agent.py, moltbot-researcher/agent.py,           *)
(* payment_agent.py). One action is one resumption of the generator.      *)
(* ====================================================================== *)

AgentKinds == {"BaseAgent", "ResearcherAgent", "BasePaymentAgent"}

\* what the concatenated text parts are to json.loads: not JSON at all, JSON
\* that is not an object (a list, a number, null), or an object whose
\* "action" is get_bid, bid, process (also when absent) or something else
Texts == {"not_json", "not_object", "get_bid", "bid", "process", "other"}

\* the agent's own processing (self.process, the LLM call, process_payment)
\* returns or raises
Outcomes == {"ok", "raises"}

StatusEvent == [type |-> "status", text |-> "working"]
ArtifactEvent == [type |-> "artifact", text |-> "artifact"]
ResultEvent(text) == [type |-> "result", text |-> text]

NoAgentRun ==
    [agent |-> "none", text |-> "not_json", query |-> FALSE, llm_available |-> FALSE,
     outcome |-> "ok", artifacts |-> 0, pc |-> "idle", events |-> <<>>,
     faulted |-> FALSE]

\* `yield event`, the generator then waiting at pc
Yield(r, event, pc) == [r EXCEPT !.events = Append(@, event), !.pc = pc]

\* an exception that no except clause of the handler catches ends the run
Raise(r) == [r EXCEPT !.pc = "raised"]

\* ---- BaseAgent.handle_message

BaseStatus ==
    /\ agent_run.agent = "BaseAgent" /\ agent_run.pc = "start"
    /\ agent_run' = Yield(agent_run, StatusEvent, "bid_request")
    /\ UNCHANGED notAgent

\* _handle_bid_request_message is called outside the try: it catches
\* JSONDecodeError and TypeError around json.loads and request.get, so a text
\* that is JSON but no object leaves request.get's AttributeError uncaught
BaseBidRequest ==
    /\ agent_run.agent = "BaseAgent" /\ agent_run.pc = "bid_request"
    /\ agent_run' =
         CASE agent_run.text = "get_bid" ->
                Yield(agent_run, ResultEvent("bid"), "returned")
           [] agent_run.text = "not_object" -> Raise(agent_run)
           [] OTHER -> [agent_run EXCEPT !.pc = "process"]
    /\ UNCHANGED notAgent

\* try: final_state = await self.process(state) ... except Exception as e:
\* yield the result "Error: {e}"
BaseProcess ==
    /\ agent_run.agent = "BaseAgent" /\ agent_run.pc = "process"
    /\ agent_run' =
         IF agent_run.outcome = "raises"
         THEN Yield([agent_run EXCEPT !.faulted = TRUE], ResultEvent("error"),
                    "returned")
         ELSE [agent_run EXCEPT !.pc = "artifacts"]
    /\ UNCHANGED notAgent

BaseArtifact ==
    /\ agent_run.agent = "BaseAgent" /\ agent_run.pc = "artifacts"
    /\ agent_run.artifacts > 0
    /\ agent_run' = Yield([agent_run EXCEPT !.artifacts = @ - 1], ArtifactEvent,
                          "artifacts")
    /\ UNCHANGED notAgent

BaseResult ==
    /\ agent_run.agent = "BaseAgent" /\ agent_run.pc = "artifacts"
    /\ agent_run.artifacts = 0
    /\ agent_run' = Yield(agent_run, ResultEvent("result"), "returned")
    /\ UNCHANGED notAgent

\* ---- ResearcherAgent.handle_request

ResearchNoQuery ==
    /\ agent_run.agent = "ResearcherAgent" /\ agent_run.pc = "start"
    /\ ~agent_run.query
    /\ agent_run' = Yield(agent_run, ResultEvent("error"), "returned")
    /\ UNCHANGED notAgent

ResearchNoLLM ==
    /\ agent_run.agent = "ResearcherAgent" /\ agent_run.pc = "start"
    /\ agent_run.query /\ ~agent_run.llm_available
    /\ agent_run' = Yield(agent_run, ResultEvent("error"), "returned")
    /\ UNCHANGED notAgent

ResearchStatus ==
    /\ agent_run.agent = "ResearcherAgent" /\ agent_run.pc = "start"
    /\ agent_run.query /\ agent_run.llm_available
    /\ agent_run' = Yield(agent_run, StatusEvent, "querying")
    /\ UNCHANGED notAgent

ResearchQuerying ==
    /\ agent_run.agent = "ResearcherAgent" /\ agent_run.pc = "querying"
    /\ agent_run' = Yield(agent_run, StatusEvent, "llm")
    /\ UNCHANGED notAgent

\* await self.llm_client.research(...) or .generate(...), in no try block:
\* LLMClient.generate re-raises the API's errors as RuntimeError
ResearchLLM ==
    /\ agent_run.agent = "ResearcherAgent" /\ agent_run.pc = "llm"
    /\ agent_run' =
         IF agent_run.outcome = "raises"
         THEN Raise([agent_run EXCEPT !.faulted = TRUE])
         ELSE Yield(agent_run, ResultEvent("result"), "returned")
    /\ UNCHANGED notAgent

\* ---- BasePaymentAgent.handle_message

PaymentStatus ==
    /\ agent_run.agent = "BasePaymentAgent" /\ agent_run.pc = "start"
    /\ agent_run' = Yield(agent_run, StatusEvent, "request")
    /\ UNCHANGED notAgent

\* the whole of the parsing and the three branches is inside one try with
\* except json.JSONDecodeError and except Exception, each yielding a result
PaymentAnswer ==
    /\ agent_run.agent = "BasePaymentAgent" /\ agent_run.pc = "request"
    /\ agent_run' =
         CASE agent_run.text = "not_json" ->
                Yield(agent_run, ResultEvent("error"), "returned")
           [] agent_run.text = "not_object" ->
                Yield(agent_run, ResultEvent("error"), "returned")
           [] agent_run.text = "bid" ->
                Yield(agent_run, ResultEvent("bid"), "returned")
           [] agent_run.text = "process" /\ agent_run.outcome = "raises" ->
                Yield([agent_run EXCEPT !.faulted = TRUE], ResultEvent("error"),
                      "returned")
           [] agent_run.text = "process" /\ agent_run.outcome = "ok" ->
                Yield(agent_run, ResultEvent("result"), "returned")
           [] OTHER -> Yield(agent_run, ResultEvent("error"), "returned")
    /\ UNCHANGED notAgent

\* ---- one run per behaviour, over every agent and input

AgentInit ==
    \E agent \in AgentKinds, text \in Texts, query \in BOOLEAN,
       llm_available \in BOOLEAN, outcome \in Outcomes,
       artifacts \in 0..MaxArtifacts :
        agent_run = [NoAgentRun EXCEPT
                        !.agent = agent, !.pc = "start", !.outcome = outcome,
                        !.text = IF agent = "ResearcherAgent" THEN "not_json" ELSE text,
                        !.query = agent = "ResearcherAgent" /\ query,
                        !.llm_available = agent = "ResearcherAgent" /\ llm_available,
                        !.artifacts = IF agent = "BaseAgent" THEN artifacts ELSE 0]

AgentNext ==
    \/ BaseStatus
    \/ BaseBidRequest
    \/ BaseProcess
    \/ BaseArtifact
    \/ BaseResult
    \/ ResearchNoQuery
    \/ ResearchNoLLM
    \/ ResearchStatus
    \/ ResearchQuerying
    \/ ResearchLLM
    \/ PaymentStatus
    \/ PaymentAnswer

(* ====================================================================== *)
(* The consumer side: paying upfront and requesting the service           *)
(* (moltbot_agent.py request_service_from_agent, moltbot-customer/agent.py *)
(* request_service_via_moltbook)                                           *)
(* ====================================================================== *)

Callers == {"request_service_from_agent", "request_service_via_moltbook"}

\* receipt.payment_id of the receipt a payment returned; None without one
None == "None"
ReceiptIds == {"pay-1", "pay-2"}

\* no service request sent
NoRequest == [sent |-> FALSE, payment_id |-> None, payment_amount |-> 0]

\* the request data sent to the provider, as far as the gate reads it
ServiceRequest(payment_id, payment_amount) ==
    [sent |-> TRUE, payment_id |-> payment_id, payment_amount |-> payment_amount]

NoConsumer ==
    [caller |-> "none", pc |-> "idle", pay_upfront |-> FALSE, ap2 |-> FALSE,
     price |-> 0, paid |-> "not_tried", receipt |-> None,
     payment_id |-> None, payment_amount |-> 0, request |-> NoRequest,
     result |-> "not_returned"]

\* `payment_id = receipt.payment_id if receipt else "unknown"`
PaymentIdOf(receipt) == IF receipt # None THEN receipt ELSE "unknown"

\* ---- MoltbotAgent.request_service_from_agent

\* lines 553-563: without a gateway connection, or when get_price fails, the
\* call returns None; else the provider's price is read (0 when absent)
AskPrice ==
    /\ consumer.caller = "request_service_from_agent" /\ consumer.pc = "start"
    /\ \/ consumer' = [consumer EXCEPT !.pc = "returned", !.result = "None"]
       \/ \E price \in 0..MaxPrice :
             consumer' = [consumer EXCEPT
                             !.price = price,
                             !.pc = IF consumer.pay_upfront /\ price > 0
                                    THEN "pay" ELSE "send"]
    /\ UNCHANGED notConsumer

\* lines 570-580: pay_for_service_with_steps gives (success, receipt)
PayWithSteps ==
    /\ consumer.caller = "request_service_from_agent" /\ consumer.pc = "pay"
    /\ consumer.ap2
    /\ \E success \in BOOLEAN, receipt \in ReceiptIds \cup {None} :
          consumer' =
            IF success /\ receipt # None
            THEN [consumer EXCEPT !.paid = "succeeded", !.receipt = receipt,
                                  !.payment_id = receipt,
                                  !.payment_amount = consumer.price, !.pc = "send"]
            ELSE [consumer EXCEPT !.paid = IF success THEN "succeeded" ELSE "failed",
                                  !.receipt = receipt, !.pc = "returned",
                                  !.result = "None"]
    /\ UNCHANGED notConsumer

\* lines 581-592: pay_for_service gives a boolean
PayDirect ==
    /\ consumer.caller = "request_service_from_agent" /\ consumer.pc = "pay"
    /\ ~consumer.ap2
    /\ \E paid \in BOOLEAN :
          consumer' =
            IF paid
            THEN [consumer EXCEPT !.paid = "succeeded",
                                  !.payment_amount = consumer.price, !.pc = "send"]
            ELSE [consumer EXCEPT !.paid = "failed", !.pc = "returned",
                                  !.result = "None"]
    /\ UNCHANGED notConsumer

\* lines 594-612: send_to_agent(action="service_request", ...) gives the
\* provider's response, or raises (timeout, error response) and the call
\* returns None
SendServiceRequest ==
    /\ consumer.caller = "request_service_from_agent" /\ consumer.pc = "send"
    /\ \E result \in {"response", "None"} :
          consumer' = [consumer EXCEPT
                          !.request = ServiceRequest(consumer.payment_id,
                                                     consumer.payment_amount),
                          !.pc = "returned", !.result = result]
    /\ UNCHANGED notConsumer

\* ---- CustomerAgent.request_service_via_moltbook

\* steps 1 to 3: no provider found, or the price of the provider's profile,
\* which the balance covers or not
DiscoverProvider ==
    /\ consumer.caller = "request_service_via_moltbook" /\ consumer.pc = "start"
    /\ \/ consumer' = [consumer EXCEPT !.pc = "returned", !.result = "no_provider"]
       \/ \E price \in 0..MaxPrice, affordable \in BOOLEAN :
             consumer' =
               IF affordable
               THEN [consumer EXCEPT !.price = price, !.pc = "pay"]
               ELSE [consumer EXCEPT !.price = price, !.pc = "returned",
                                     !.result = "insufficient_funds"]
    /\ UNCHANGED notConsumer

\* step 4: process_mandate_chain gives (success, receipt, error)
ProcessMandateChain ==
    /\ consumer.caller = "request_service_via_moltbook" /\ consumer.pc = "pay"
    /\ \E success \in BOOLEAN, receipt \in ReceiptIds \cup {None} :
          consumer' =
            IF ~success
            THEN [consumer EXCEPT !.paid = "failed", !.receipt = receipt,
                                  !.pc = "returned", !.result = "payment_failed"]
            ELSE [consumer EXCEPT !.paid = "succeeded", !.receipt = receipt,
                                  !.payment_id = PaymentIdOf(receipt),
                                  !.payment_amount = consumer.price, !.pc = "send"]
    /\ UNCHANGED notConsumer

\* step 5: _call_provider_a2a(endpoint, service_request) gives the service's
\* result or an error
CallProviderA2A ==
    /\ consumer.caller = "request_service_via_moltbook" /\ consumer.pc = "send"
    /\ \E result \in {"success", "delivery_failed"} :
          consumer' = [consumer EXCEPT
                          !.request = ServiceRequest(consumer.payment_id,
                                                     consumer.payment_amount),
                          !.pc = "returned", !.result = result]
    /\ UNCHANGED notConsumer

ConsumerInit ==
    \E caller \in Callers, pay_upfront \in BOOLEAN, ap2 \in BOOLEAN :
        consumer = [NoConsumer EXCEPT
                       !.caller = caller, !.pc = "start",
                       !.pay_upfront = pay_upfront \/ caller = "request_service_via_moltbook",
                       !.ap2 = ap2 \/ caller = "request_service_via_moltbook"]

ConsumerNext ==
    \/ AskPrice
    \/ PayWithSteps
    \/ PayDirect
    \/ SendServiceRequest
    \/ DiscoverProvider
    \/ ProcessMandateChain
    \/ CallProviderA2A

(* ====================================================================== *)
(* Gateway client: OpenClawClient (openclaw_client.py)                     *)
(* ====================================================================== *)

\* who calls send_request: a task of the agent outside the receive loop, or
\* the handler of an incoming message, which the receive loop awaits
Origins == {"task", "handler"}

NoHandler == [pc |-> "idle", awaits |-> 0]
NoGateway ==
    [connected |-> FALSE, loop |-> "none", pending |-> {}, requests |-> <<>>,
     inbox |-> <<>>, handler |-> NoHandler]

\* one call of send_request: its state (waiting on its future, returned,
\* raised), why it ended, and whether the gateway has put its answer on the wire
NewRequest(origin, state, cause) ==
    [origin |-> origin, state |-> state, cause |-> cause, replied |-> FALSE]

Waiting(id) == id \in 1..Len(gateway.requests) /\ gateway.requests[id].state = "waiting"

\* self._pending_requests.pop(msg_id)
Resolve(pending, id) == pending \ {id}

\* send_request up to its await of the future: ConnectionError when not
\* connected; else the future is registered under a fresh id and the message
\* is written to the websocket, which may fail
SendRequest(origin) ==
    /\ Len(gateway.requests) < MaxRequests
    /\ origin = "handler" =>
          gateway.loop = "in_handler" /\ gateway.handler.awaits = 0
    /\ LET id == Len(gateway.requests) + 1 IN
       IF ~gateway.connected
       THEN gateway' = [gateway EXCEPT
                           !.requests = Append(@, NewRequest(origin, "raised",
                                                             "not_connected"))]
       ELSE \E sent \in BOOLEAN :
              gateway' =
                IF sent
                THEN [gateway EXCEPT
                         !.pending = @ \cup {id},
                         !.requests = Append(@, NewRequest(origin, "waiting", "")),
                         !.handler.awaits = IF origin = "handler" THEN id ELSE @]
                ELSE [gateway EXCEPT
                         !.pending = @ \cup {id},
                         !.requests = Append(@, NewRequest(origin, "raised",
                                                           "send_failed"))]
    /\ UNCHANGED notGateway

\* the gateway answers a request it was sent, with a result or an error
GatewayAnswers(id) ==
    /\ gateway.loop \in {"reading", "in_handler"}
    /\ id \in 1..Len(gateway.requests)
    /\ gateway.requests[id].cause \notin {"not_connected", "send_failed"}
    /\ ~gateway.requests[id].replied
    /\ Len(gateway.inbox) < MaxInbox
    /\ \E kind \in {"result", "error"} :
          gateway' = [gateway EXCEPT !.inbox = Append(@, [kind |-> kind, id |-> id]),
                                     !.requests[id].replied = TRUE]
    /\ UNCHANGED notGateway

\* the gateway sends a method call for which a handler is registered
GatewayCalls ==
    /\ gateway.loop \in {"reading", "in_handler"}
    /\ Len(gateway.inbox) < MaxInbox
    /\ gateway' = [gateway EXCEPT !.inbox = Append(@, [kind |-> "call", id |-> 0])]
    /\ UNCHANGED notGateway

\* one turn of `async for msg in self._ws`: _handle_message(msg.data) up to
\* its first await. A response resolves its pending future; a method call
\* starts its handler, which the loop awaits.
ReceiveLoop ==
    /\ gateway.loop = "reading" /\ gateway.inbox # <<>>
    /\ LET msg == Head(gateway.inbox) IN
       gateway' =
         IF msg.kind = "call"
         THEN [gateway EXCEPT !.inbox = Tail(@), !.loop = "in_handler",
                              !.handler = [pc |-> "running", awaits |-> 0]]
         ELSE IF msg.id \in gateway.pending
         THEN [gateway EXCEPT
                  !.inbox = Tail(@),
                  !.pending = Resolve(@, msg.id),
                  !.requests[msg.id].state =
                      IF msg.kind = "error" THEN "raised" ELSE "returned",
                  !.requests[msg.id].cause = msg.kind]
         ELSE [gateway EXCEPT !.inbox = Tail(@)]
    /\ UNCHANGED notGateway

\* the handler returns (or raises) and _handle_message sends its response:
\* the loop goes back to reading the websocket
HandlerReturns ==
    /\ gateway.loop = "in_handler" /\ gateway.handler.awaits = 0
    /\ gateway' = [gateway EXCEPT !.loop = "reading", !.handler = NoHandler]
    /\ UNCHANGED notGateway

\* asyncio.wait_for(future, timeout) expires: except asyncio.TimeoutError
RequestTimeout(id) ==
    /\ Waiting(id)
    /\ gateway' = [gateway EXCEPT
                       !.pending = Resolve(@, id),
                       !.requests[id].state = "raised",
                       !.requests[id].cause = "timeout",
                       !.handler.awaits = IF @ = id THEN 0 ELSE @]
    /\ UNCHANGED notGateway

\* the websocket reports CLOSED or ERROR, or raises: the loop ends
ConnectionCloses ==
    /\ gateway.loop = "reading"
    /\ gateway' = [gateway EXCEPT !.loop = "ended", !.connected = FALSE,
                                  !.inbox = <<>>]
    /\ UNCHANGED notGateway

\* disconnect(): the receive task is cancelled, and with it the handler it
\* awaits and the send_request that handler waits in (CancelledError is no
\* TimeoutError)
Disconnect ==
    /\ gateway.loop \in {"reading", "in_handler"}
    /\ gateway' =
         IF gateway.handler.awaits # 0
         THEN [gateway EXCEPT
                  !.loop = "ended", !.connected = FALSE, !.inbox = <<>>,
                  !.handler = NoHandler,
                  !.requests[gateway.handler.awaits].state = "raised",
                  !.requests[gateway.handler.awaits].cause = "cancelled"]
         ELSE [gateway EXCEPT !.loop = "ended", !.connected = FALSE, !.inbox = <<>>,
                              !.handler = NoHandler]
    /\ UNCHANGED notGateway

\* after connect(): the websocket is open and the receive task runs
GatewayInit ==
    gateway = [NoGateway EXCEPT !.connected = TRUE, !.loop = "reading"]

GatewayNext ==
    \/ \E origin \in Origins : SendRequest(origin)
    \/ \E id \in 1..MaxRequests : GatewayAnswers(id)
    \/ GatewayCalls
    \/ ReceiveLoop
    \/ HandlerReturns
    \/ \E id \in 1..MaxRequests : RequestTimeout(id)
    \/ ConnectionCloses
    \/ Disconnect

(* ====================================================================== *)
(* The one-click workflow run: run_workflow (ui/nicegui_app.py) and       *)
(* on_run_workflow (aex/ui/main.py)                                        *)
(* ====================================================================== *)

\* the two pages that have a "Run Workflow" button
Pages == {"nicegui", "aex"}

\* the legal agents fetch_real_bids asks, by name
LegalAgents == {"Budget Legal AI", "Standard Legal AI", "Premium Legal AI"}

\* a bid of the list a run works with: simulate_bids marks its bids
NoBids == {}
RealBids(answered) == {[provider |-> a, simulated |-> FALSE] : a \in answered}
SimulatedBids == {[provider |-> a, simulated |-> TRUE] : a \in LegalAgents}

\* fetch_real_bids: the bids of the agents that answered with a
\* bid_response; aex/ui/main.py substitutes simulate_bids for an empty list,
\* ui/nicegui_app.py returns it
FetchRealBids(page, answered) ==
    IF answered = {} /\ page = "aex" THEN SimulatedBids ELSE RealBids(answered)

\* TaskResult(...) as the handler creates it
NewTaskResult ==
    [status |-> "pending", current_step |-> 0, bids |-> NoBids, winner |-> "none"]

\* the page's state: tasks is state.tasks / state.task_results, the newest
\* first; pc is the call the running handler waits in
NoWorkflow == [page |-> "nicegui", is_running |-> FALSE, pc |-> "idle", tasks |-> <<>>]

\* state.current_task is the head of the list
CurrentTask == workflow.tasks[1]
WithCurrentTask(task) == [workflow.tasks EXCEPT ![1] = task]

\* a click on "Run Workflow" (the button is disabled while a run is on): the
\* task is created and put at the head of the list, STEP 1 begins
RunWorkflow ==
    /\ ~workflow.is_running /\ workflow.pc = "idle"
    /\ Len(workflow.tasks) < MaxRuns
    /\ workflow' = [workflow EXCEPT
          !.is_running = TRUE,
          !.tasks = <<[NewTaskResult EXCEPT !.status = "bidding", !.current_step = 1]>>
                        \o workflow.tasks,
          !.pc = "fetch_real_bids"]
    /\ UNCHANGED notWorkflow

\* fetch_real_bids returns: task.bids = bids, STEP 2 begins
BidsFetched ==
    /\ workflow.pc = "fetch_real_bids"
    /\ \E answered \in SUBSET LegalAgents :
          workflow' = [workflow EXCEPT
              !.tasks = WithCurrentTask(
                  [CurrentTask EXCEPT !.bids = FetchRealBids(workflow.page, answered),
                                      !.status = "evaluating", !.current_step = 2]),
              !.pc = "evaluate_bids"]
    /\ UNCHANGED notWorkflow

\* evaluate_bids returns the ranking of the bids it got. run_workflow goes
\* on to STEP 3 and 4 `if evaluated:` and otherwise straight to its last two
\* lines; on_run_workflow takes evaluated[0] with no test.
BidsEvaluated ==
    /\ workflow.pc = "evaluate_bids"
    /\ LET evaluated == CurrentTask.bids IN
       IF evaluated # {}
       THEN \E winner \in evaluated :
               workflow' = [workflow EXCEPT
                  !.tasks = WithCurrentTask(
                      [CurrentTask EXCEPT !.winner = winner.provider,
                                          !.status = "executing", !.current_step = 4]),
                  !.pc = "call_agent_a2a"]
       ELSE IF workflow.page = "nicegui"
       THEN workflow' = [workflow EXCEPT !.is_running = FALSE, !.pc = "idle"]
       ELSE workflow' = [workflow EXCEPT !.pc = "raised"]
    /\ UNCHANGED notWorkflow

\* call_agent_a2a returns (the answer, or "Error: ..." for an exception):
\* STEP 5 begins
AgentCalled ==
    /\ workflow.pc = "call_agent_a2a"
    /\ workflow' = [workflow EXCEPT
          !.tasks = WithCurrentTask(
              [CurrentTask EXCEPT !.status = "paying", !.current_step = 5]),
          !.pc = "fetch_payment_bids"]
    /\ UNCHANGED notWorkflow

\* the payment providers' bids are there (their own fallback keeps the list
\* non-empty): STEP 5 to 7 and the end of the handler
PaymentBidsFetched ==
    /\ workflow.pc = "fetch_payment_bids"
    /\ workflow' = [workflow EXCEPT
          !.tasks = WithCurrentTask(
              [CurrentTask EXCEPT !.status = "completed", !.current_step = 7]),
          !.is_running = FALSE,
          !.pc = "idle"]
    /\ UNCHANGED notWorkflow

WorkflowInit == \E page \in Pages : workflow = [NoWorkflow EXCEPT !.page = page]

WorkflowNext ==
    \/ RunWorkflow
    \/ BidsFetched
    \/ BidsEvaluated
    \/ AgentCalled
    \/ PaymentBidsFetched

(* ---------------------------- claims: tasks --------------------------- *)

Terminal == {"completed", "failed", "canceled"}

\* the transition graph of the task state machine
AllowedTransition ==
    {<<"submitted", "working">>, <<"working", "completed">>, <<"working", "failed">>,
     <<"working", "canceled">>, <<"working", "input-required">>,
     <<"input-required", "working">>}

\* C1 (as claimed): a task's status.state changes only along the transition
\* graph; a terminal state is never left and no step returns to submitted.
C1_StateOnlyMovesForward ==
    [][\A t \in 1..Len(tasks) :
          tasks'[t].state # tasks[t].state =>
              <<tasks[t].state, tasks'[t].state>> \in AllowedTransition]_vars

\* C2 (as claimed): when the handler raises, message/send answers with a
\* result envelope holding the Task snapshot, whose status is failed.
C2_HandlerFaultGivesFailedTask ==
    \A t \in 1..Len(calls) :
        calls[t].raised =>
            /\ calls[t].reply.kind = "result"
            /\ calls[t].reply.task.state = "failed"

\* a step that dispatches a request
Dispatched == nCalls' # nCalls \/ Len(tasks') # Len(tasks)
\* the request passes the envelope and credential checks
PassesChecks(call) == call.wellformed /\ (require_auth => call.authorised)
KnownId(id) == id \in 1..Len(tasks)

\* C18: tasks/cancel on a known task id sets that task's state to canceled
\* whatever it was, completed included, and answers with the task's snapshot
\* in state canceled; on an unknown id it answers with an error and changes
\* no task.
C18_CancelIsUnconditional ==
    [][(Dispatched /\ lastCall'.method = "tasks/cancel" /\ PassesChecks(lastCall')) =>
          IF KnownId(lastCall'.task_id)
          THEN /\ tasks'[lastCall'.task_id].state = "canceled"
               /\ lastReply'.kind = "result"
               /\ lastReply'.task = tasks'[lastCall'.task_id]
               /\ \A t \in 1..Len(tasks) : t # lastCall'.task_id => tasks'[t] = tasks[t]
          ELSE /\ lastReply'.kind = "error"
               /\ tasks' = tasks]_vars

\* a task whose message/send had returned (completed) was canceled
C18_Witness ==
    /\ lastCall.method = "tasks/cancel"
    /\ KnownId(lastCall.task_id)
    /\ calls[lastCall.task_id].pc = "returned"
    /\ ~calls[lastCall.task_id].raised
    /\ tasks[lastCall.task_id].state = "canceled"
    /\ lastReply.task.state = "canceled"

\* C19: a fault raised while a resolved method runs is answered with the
\* error -32603 carrying the id of the request it came from, and the server
\* goes on serving requests.
C19_FaultGivesInternalError ==
    /\ \A t \in 1..Len(calls) :
          calls[t].raised =>
              /\ calls[t].reply.kind = "error"
              /\ calls[t].reply.code = -32603
              /\ calls[t].reply.id = SendId(t)
    /\ (/\ lastCall.method \in {"tasks/get", "tasks/cancel"}
        /\ PassesChecks(lastCall)
        /\ ~KnownId(lastCall.task_id)) =>
              /\ lastReply.kind = "error"
              /\ lastReply.code = -32603
              /\ lastReply.id = CallId(nCalls)
    /\ ((\E t \in 1..Len(calls) : calls[t].raised) /\ nCalls < MaxCalls) =>
          ENABLED TasksGet

\* a handler has raised and a later tasks/get was answered with a snapshot
C19_Witness ==
    /\ \E t \in 1..Len(calls) :
          calls[t].raised /\ calls[t].reply.code = -32603 /\ tasks[t].state = "working"
    /\ lastCall.method = "tasks/get"
    /\ lastReply.kind = "result"

\* C20: with require_auth, a well-formed call without a bearer token, or with
\* a token for which the validator gives no claims, is answered -32001 and
\* creates and changes no task; without require_auth no call is answered
\* -32001, and a well-formed message/send makes its task whatever
\* credential it carries.
C20_AuthGate ==
    [][Dispatched =>
          /\ (require_auth /\ lastCall'.wellformed /\ ~lastCall'.authorised) =>
                /\ lastReply'.kind = "error"
                /\ lastReply'.code = -32001
                /\ tasks' = tasks
                /\ calls' = calls
          /\ ~require_auth =>
                /\ lastReply'.code # -32001
                /\ (lastCall'.wellformed
                      /\ lastCall'.method \in {"message/send", "message/stream"}) =>
                         Len(tasks') = Len(tasks) + 1]_vars

\* an unauthorised call was turned away while a task exists
C20_Witness ==
    /\ require_auth
    /\ lastCall.wellformed /\ ~lastCall.authorised
    /\ lastCall.method = "tasks/cancel"
    /\ lastReply.code = -32001
    /\ Len(tasks) >= 1

IsPrefix(p, q) == Len(p) <= Len(q) /\ SubSeq(q, 1, Len(p)) = p

\* C27: a task is created in state submitted with the message of its
\* message/send as its whole history, and from then on its history only
\* grows at the end, by messages of the agent: the first element stays the
\* initiating message.
C27_HistoryAppendOnly ==
    [][/\ Len(tasks') >= Len(tasks)
       /\ \A t \in 1..Len(tasks) :
             /\ IsPrefix(tasks[t].history, tasks'[t].history)
             /\ \A k \in (Len(tasks[t].history) + 1)..Len(tasks'[t].history) :
                   tasks'[t].history[k].role = "agent"
       /\ \A t \in (Len(tasks) + 1)..Len(tasks') :
             /\ tasks'[t].state = "submitted"
             /\ tasks'[t].history = <<calls'[t].message>>]_vars

\* a completed task whose history is the initiating message and then the
\* agent's answer
C27_Witness ==
    \E t \in 1..Len(tasks) :
        /\ tasks[t].state = "completed"
        /\ Len(tasks[t].history) = 2
        /\ tasks[t].history[1] = calls[t].message
        /\ tasks[t].history[2].role = "agent"

\* C28: a step changes at most one entry of the task map: either it
\* dispatches nothing, that task's message/send is running and no other
\* call's processing moves in it, or it is a tasks/cancel naming that task;
\* the other tasks keep their status, history and artifacts.
C28_TasksAreIsolated ==
    [][\A u \in 1..Len(tasks) :
          tasks'[u] # tasks[u] =>
              /\ \A v \in 1..Len(tasks) : v # u => tasks'[v] = tasks[v]
              /\ \/ /\ ~Dispatched
                    /\ Running(u)
                    /\ \A v \in 1..Len(calls) : v # u => calls'[v] = calls[v]
                 \/ /\ Dispatched
                    /\ lastCall'.method = "tasks/cancel"
                    /\ lastCall'.task_id = u]_vars

\* two message/send calls are in flight, each has had an event, and the
\* first task is still as it was created
C28_Witness ==
    /\ Len(tasks) = 2
    /\ Running(1) /\ Running(2)
    /\ calls[1].artifacts # <<>>
    /\ tasks[1] = NewTask(1, calls[1].message)
    /\ tasks[2].state = "working"

\* C29: a well-formed request that passes the credential check and names a
\* method outside the table is answered -32601 with the request's id, and no
\* task is created or changed.
C29_UnknownMethodNotFound ==
    [][(Dispatched /\ PassesChecks(lastCall') /\ lastCall'.method \notin Methods) =>
          /\ lastReply' = ErrorResponse(CallId(nCalls'), -32601)
          /\ tasks' = tasks
          /\ calls' = calls]_vars

\* an unknown method was turned away while a task is in flight
C29_Witness ==
    /\ lastCall.wellformed /\ lastCall.method \in UnknownMethods
    /\ lastReply.code = -32601
    /\ \E t \in 1..Len(tasks) : Running(t)

\* C31 (as claimed): when the handler of a message/send finishes for a task
\* that a tasks/cancel set to canceled while the handler was in flight, the
\* task is still canceled afterwards.
C31_CanceledSurvivesCompletion ==
    [][\A t \in 1..Len(tasks) :
          (Running(t) /\ tasks[t].state = "canceled" /\ calls'[t].pc = "returned"
             /\ ~calls'[t].raised) =>
              tasks'[t].state = "canceled"]_vars

\* C32 (as claimed): a message/send that answers with a completed task had a
\* result event whose parts are the agent message at the end of the task's
\* history, and the last state its handler reported was neither failed nor
\* input-required.
C32_CompletedHasResult ==
    \A t \in 1..Len(calls) :
        (calls[t].pc = "returned" /\ calls[t].reply.kind = "result"
           /\ calls[t].reply.task.state = "completed") =>
            LET history == calls[t].reply.task.history IN
            /\ history[Len(history)] = Message("agent", calls[t].response_parts)
            /\ calls[t].reported \notin {"failed", "input-required"}

(* ---------------------------- claims: gate ---------------------------- *)

GateAnswered == run.verdict.error # "not_run"

\* C3 (as claimed): a request that is not marked free and carries a
\* payment_amount below the service price (0 included) is rejected, whatever
\* payment id or history comes with it.
C3_UnderpaidAlwaysRejected ==
    (/\ GateAnswered
     /\ ~run.message.skip_payment
     /\ run.message.has_amount
     /\ run.message.payment_amount < service_price) => ~run.verdict.verified

\* C4: for a provider with a service price above 0, handle_request runs only
\* for a message the gate has verified; a message the gate rejected gets no
\* work and exactly one event, the payment_rejected result.
C4_WorkOnlyAfterVerified ==
    service_price > 0 =>
        /\ run.pc = "work" \/ run.worked => GateAnswered /\ run.verdict.verified
        /\ GateAnswered /\ ~run.verdict.verified =>
              /\ ~run.worked
              /\ run.pc \in {"reject", "done"}
              /\ run.events = IF run.pc = "done" THEN <<"payment_rejected">> ELSE <<>>

\* a paid request was verified from the wallet history and then worked on
C4_Witness ==
    /\ service_price > 0
    /\ run.worked
    /\ run.message.action = "service_request"
    /\ ~run.message.skip_payment
    /\ run.verdict.asked /\ run.verdict.verified

NoPaymentFields(m) ==
    ~m.has_amount /\ m.payment_id = Absent /\ m.transaction_id = Absent
\* one of the 10 newest records of h is a payment of payer to this provider
\* of at least price
RecentMatch(h, payer, price) ==
    \E i \in 1..Len(h) :
        /\ Len(h) - i < 10
        /\ h[i].from_wallet = payer
        /\ h[i].to_wallet = AgentId
        /\ h[i].amount >= price

\* C21: a request that is not marked free, carries a payment id and has no
\* payment_amount field is accepted, and the transaction history is not
\* asked for.
C21_PaymentIdAccepted ==
    (/\ GateAnswered
     /\ run.message.payment_id # Absent
     /\ ~run.message.has_amount) => run.verdict.verified /\ ~run.verdict.asked

\* such a request was accepted and worked on although the wallet has a history
C21_Witness ==
    /\ service_price > 0
    /\ run.message.payment_id # Absent /\ ~run.message.has_amount
    /\ ~run.message.skip_payment
    /\ run.message.from_agent # Absent
    /\ wallet_history # <<>>
    /\ run.worked /\ ~run.verdict.asked

\* C22: a request with no payment id, no free mark and no amount below the
\* price is accepted exactly when one of the 10 newest records of the history
\* the Token Bank gave is from the claimed payer, to this provider, and of at
\* least the service price.
C22_HistoryDecides ==
    (/\ GateAnswered
     /\ ~run.message.skip_payment
     /\ run.message.payment_id = Absent /\ run.message.transaction_id = Absent
     /\ run.message.has_amount => run.message.payment_amount >= service_price) =>
        (run.verdict.verified <=>
            /\ run.message.from_agent # Absent
            /\ RecentMatch(run.verdict.seen, run.message.from_agent, service_price))

\* the only matching record is older than the 10 newest, and the request is
\* rejected
C22_Witness ==
    /\ GateAnswered /\ ~run.verdict.verified
    /\ ~run.message.skip_payment /\ NoPaymentFields(run.message)
    /\ Len(run.verdict.seen) > 10
    /\ run.verdict.seen[1].from_wallet = run.message.from_agent
    /\ run.verdict.seen[1].to_wallet = AgentId
    /\ run.verdict.seen[1].amount >= service_price

\* C23: a request with no payment fields and no free mark, when no record of
\* the wallet history matches, is rejected, and its result is the
\* payment_rejected result: its error names the service price and it
\* carries the required payment and the provider's id.
C23_RejectionIsTyped ==
    (/\ GateAnswered
     /\ NoPaymentFields(run.message) /\ ~run.message.skip_payment
     /\ ~RecentMatch(wallet_history, run.message.from_agent, service_price)) =>
        /\ ~run.verdict.verified
        /\ ~run.worked
        /\ run.pc = "done" =>
              /\ run.events = <<"payment_rejected">>
              /\ run.result.action = "payment_rejected"
              /\ service_price \in run.result.names
              /\ run.result.required_payment = service_price
              /\ run.result.agent_id = AgentId

\* such a request was rejected although another agent had paid
C23_Witness ==
    /\ run.pc = "done" /\ run.result.action = "payment_rejected"
    /\ NoPaymentFields(run.message) /\ ~run.message.skip_payment
    /\ run.message.from_agent # Absent
    /\ run.verdict.asked
    /\ wallet_history # <<>>

\* C33: when the Token Bank fails during the gate's history lookup, the gate
\* does not verify the payment: its verdict is "payment required", the
\* request is answered with the payment_rejected result and no work is done,
\* even when the wallet's history holds a matching payment.
C33_LookupFaultRejects ==
    run.fault =>
        /\ ~run.verdict.verified /\ run.verdict.error = "payment_required"
        /\ run.pc \in {"reject", "done"}
        /\ ~run.worked
        /\ run.pc = "done" =>
               /\ run.result = PaymentRejected(run.verdict, service_price)
               /\ run.events = <<"payment_rejected">>

\* the lookup failed for a request whose sender has a matching payment in
\* the window of the history, and the request was rejected
C33_Witness ==
    /\ run.fault /\ run.pc = "done"
    /\ HistoryMatches(wallet_history, run.message.from_agent, service_price)
    /\ run.result.action = "payment_rejected"

\* C37 (as claimed): a request that presents the payment evidence on which
\* the request before it was served (the same payment id, or the same sender
\* with no new transfer in the history) is rejected by the gate.
C37_EvidenceServesOnce ==
    (run.again /\ run.pc \in {"work", "reject", "done"}) => ~run.verdict.verified

(* --------------------------- claims: auction -------------------------- *)

RoundDone == round.pc = "done"

\* the bids of agent p in a bid list
BidsFrom(bids, p) == {k \in 1..Len(bids) : bids[k].endpoint = p}

\* a bid list holds, agent by agent, exactly the well-formed bids received
ExactlyReceived(bids) ==
    /\ \A p \in Providers : Cardinality(BidsFrom(bids, p)) = round.delivered[p]
    /\ \A k \in 1..Len(bids) :
          /\ bids[k].endpoint \in Providers
          /\ bids[k] = RealBid(variant, bids[k].endpoint)
    /\ \A j, k \in 1..Len(bids) : j < k => bids[j].endpoint <= bids[k].endpoint

NoneReceived == \A p \in Providers : round.delivered[p] = 0

Labelled(bid) == \E p \in Providers : bid.provider_name = SimulatedNames[p]

\* C5: a round takes no longer than one per-call timeout,
\* however many providers are called.
C5_RoundWithinOneTimeout ==
    RoundDone => round.elapsed <= PerCallTimeout

C7_ZeroBidsGetLabelledFallback ==
    RoundDone /\ round.bids = <<>> =>
        /\ round.result # <<>>
        /\ \A k \in 1..Len(round.result) : Labelled(round.result[k])

(* --------------------------- claims: ranking -------------------------- *)

Returned == ranking.pc = "returned"
Unscored(bid) == WithId(bid, bid.provider_id)
Positions == 1..Len(ranking.ranked)

\* C8: for every non-empty bid set and each of the three strategies, what
\* evaluate_bids returns is a permutation of the bids handed in (each of them
\* exactly once, nothing else), and every score lies between 0 and 1.
C8_PermutationWithScoresInUnitRange ==
    Returned =>
        /\ Len(ranking.ranked) = Len(ranking.bids)
        /\ \A i \in 1..Len(ranking.bids) :
              Cardinality({k \in Positions : Unscored(ranking.ranked[k]) = ranking.bids[i]}) = 1
        /\ \A k \in Positions :
              /\ 0 <= ranking.ranked[k].score.n
              /\ ranking.ranked[k].score.n <= ranking.ranked[k].score.d

\* a ranking that moved the second bid to the top with the full score 1
C8_Witness ==
    /\ Returned
    /\ Len(ranking.ranked) >= 2
    /\ ranking.ranked[1].provider_id = 2
    /\ ranking.ranked[1].score = R(1, 1)

\* C9: when all prices of a non-empty bid set are equal, the price score of
\* every bid is 1, in every implementation of evaluate_bids.
C9_EqualPricesScoreOne ==
    (Returned /\ Cardinality(Prices(ranking.bids)) = 1) =>
        \A i \in 1..Len(ranking.bids) : ranking.price_scores[i] = R(1, 1)

\* C10: the ranking is in descending order of score, and of two bids with the
\* same score the one that came first in the input comes first.
C10_DescendingAndStable ==
    Returned =>
        \A j \in Positions : \A k \in Positions :
            j < k =>
                /\ RLeq(ranking.ranked[k].score, ranking.ranked[j].score)
                /\ REq(ranking.ranked[k].score, ranking.ranked[j].score)
                      => ranking.ranked[j].provider_id < ranking.ranked[k].provider_id

\* two bids that differ in price and still score the same
C10_Witness ==
    /\ Returned
    /\ Len(ranking.ranked) >= 2
    /\ ranking.ranked[1].price # ranking.ranked[2].price
    /\ REq(ranking.ranked[1].score, ranking.ranked[2].score)

\* the winner of the scenario: the 12 bid for lowest_price, the 30 bid for
\* best_quality
ScenarioWinner ==
    /\ ranking.strategy = "lowest_price" => ranking.ranked[1].price = 12
    /\ ranking.strategy = "best_quality" => ranking.ranked[1].price = 30

EqualSla ==
    \A i, j \in 1..Len(ranking.bids) :
        REq(SlaScore(ranking.bids[i]), SlaScore(ranking.bids[j]))

\* C11 (as claimed): for the three bids of the scenario, whatever their
\* estimated durations, lowest_price ranks the 12 bid first and best_quality
\* ranks the 30 bid first.
C11_ScenarioWinnerAnyDuration ==
    Returned => ScenarioWinner

\* C11 (amended): for the three bids of the scenario, lowest_price ranks the 12
\* bid first whatever the durations; best_quality ranks the 30 bid first in
\* evaluate_bids of nicegui_app.py, which has no SLA signal, and in the
\* implementations with the SLA signal when the three SLA scores are equal
\* (e.g. every duration is at most 30 minutes).
C11_ScenarioWinnerEqualSla ==
    Returned =>
        /\ ranking.strategy = "lowest_price" => ranking.ranked[1].price = 12
        /\ (ranking.strategy = "best_quality" /\ (ranking.impl = "mesop" => EqualSla))
              => ranking.ranked[1].price = 30

\* best_quality with the SLA signal moved the 30 bid from the last to the
\* first place
C11_Witness ==
    /\ Returned
    /\ ranking.impl = "mesop"
    /\ ranking.strategy = "best_quality"
    /\ EqualSla
    /\ ranking.bids[3].price = 30
    /\ ranking.ranked[1].price = 30

(* --------------------------- claims: payment -------------------------- *)

CartMade == payagent.cart # NoCart
Line(k) == payagent.cart.display_items[k]

\* C12: the total of every generated cart equals the sum of its line items
\* (base price, processing fee, negative reward), each computed line being
\* rounded to two places once.
C12_TotalIsSumOfLines ==
    CartMade => payagent.cart.total = Line(1) + Line(2) + Line(3)

\* C13: a generated cart whose reward line is larger in magnitude than its
\* fee line has a total strictly below the base amount, for every base
\* amount.
C13_CashbackTotalBelowBase ==
    (CartMade /\ -Line(3) > Line(2)) => payagent.cart.total < payagent.amount

ReceiptMade == payagent.receipt # NoReceipt

\* C14: amounts agree along one payment chain; in particular, for the same
\* base amount and work category, the amount on the receipt of the process
\* action equals the total of the cart of the bid action.
C14_ReceiptAmountIsCartTotal ==
    (CartMade /\ ReceiptMade) =>
        payagent.receipt.amount = payagent.cart.total * PerMille

(* --------------------------- claims: session ------------------------- *)

\* C24: evaluating the bids puts the selected index at 0, and every award is
\* of the bid at the selected index of state.bids, the ranking on which
\* on_select_bid acts: the contract's provider, tier and agreed price are
\* that bid's, so that no award is made past the selection.
C24_AwardFollowsSelection ==
    [][/\ (session.phase = "collected" /\ session'.phase = "evaluated") =>
              session'.selected_bid_index = 0
       /\ (session.phase = "evaluated" /\ session'.phase = "awarded") =>
              /\ session.selected_bid_index < Len(session.bids)
              /\ session'.winner =
                    [provider_id |->
                         session.bids[session.selected_bid_index + 1].provider_id,
                     tier |-> session.bids[session.selected_bid_index + 1].tier,
                     agreed_price |->
                         session.bids[session.selected_bid_index + 1].price]]_vars

SameAsReceived(b, fields) ==
    LET r == session.received[b.provider_id] IN
    /\ "price" \in fields => b.price = r.price
    /\ "confidence" \in fields => b.confidence = r.confidence
    /\ "estimated_minutes" \in fields => b.estimated_minutes = r.estimated_minutes
    /\ "trust_score" \in fields => b.trust_score = r.trust_score
    /\ "tier" \in fields => b.tier = r.tier
BidFields == {"price", "confidence", "estimated_minutes", "trust_score", "tier"}

\* C25: once the bids are scored, the price, confidence, duration, trust
\* score and tier the scores were computed from are those received from the
\* providers, and so are the ones kept in the ranking.
C25_BidsAsReceived ==
    session.used # <<>> =>
        /\ \A i \in 1..Len(session.used) : SameAsReceived(session.used[i], BidFields)
        /\ session.app = "steps" =>
              \A k \in 1..Len(session.bids) : SameAsReceived(session.bids[k], BidFields)
        /\ session.app = "workflow" =>
              \A k \in 1..Len(session.task_bids) :
                  SameAsReceived(session.task_bids[k], {"price", "trust_score", "tier"})

\* C26: in a run of the workflow the winner's work is executed only after
\* the payment for the contract.
C26_PaidBeforeExecuted ==
    session.app = "workflow" =>
        \A i \in 1..Len(session.trace) :
            session.trace[i] = "execute" =>
                \E j \in 1..(i - 1) : session.trace[j] = "pay"

StartedRun(r) == Len(workflow.tasks) >= r
TaskOfRun(r) == workflow.tasks[Len(workflow.tasks) - r + 1]
EndedRun(r) ==
    /\ StartedRun(r)
    /\ TaskOfRun(r).status \in {"completed", "failed"}
    /\ Len(workflow.tasks) = r => ~workflow.is_running

\* C39 (as claimed): every started run of the workflow comes to an end with
\* its task completed or failed and is_running false again, also when no
\* agent sent a bid; no run stays in an intermediate status for ever.
C39_RunsEndTerminal ==
    \A r \in 1..MaxRuns : StartedRun(r) ~> EndedRun(r)

(* ---------------------------- claims: chain --------------------------- *)

\* C15: the stages of one call run in the order intent, cart, payment,
\* process, each at most once, and a stage is requested only when the stage
\* before it produced its mandate; after a stage that failed no later stage
\* is attempted.
C15_StagesInOrder ==
    /\ Len(chain.attempted) <= Len(Stages)
    /\ \A k \in 1..Len(chain.attempted) :
          /\ chain.attempted[k] = Stages[k]
          /\ k > 1 => Stages[k - 1] \in chain.produced
    /\ chain.pc \in {Stages[k] : k \in 2..Len(Stages)} =>
          \A j \in 1..Len(chain.attempted) : Stages[j] \in chain.produced

\* a call whose cart stage failed: it returned after two stages
C15_Witness ==
    /\ chain.pc = "returned"
    /\ chain.attempted = <<"intent", "cart">>
    /\ chain.produced = {"intent"}
    /\ chain.failed_at = "cart"

\* C16: when a stage fails the chain aborts and what the caller gets back
\* says which stage failed: no two calls that failed at different stages
\* return the same outcome.
C16_OutcomeNamesFailedStage ==
    \A o1 \in outcomes : \A o2 \in outcomes :
        (o1[2] # "none" /\ o2[2] # "none" /\ o1[1] = o2[1]) => o1[2] = o2[2]

LedgerFailures ==
    {"failure_with_receipt", "failure_without_receipt", "error_status_not_json"}

\* C17: when the ledger reports a non-success outcome, process_payment does
\* not raise and returns a receipt whose status is not success and which
\* carries an error with code and message.
C17_LedgerFailureGivesErrorReceipt ==
    chain.ledger \in LedgerFailures =>
        /\ chain.pc = "returned"
        /\ chain.receipt.present
        /\ chain.receipt.payment_status # "success"
        /\ chain.receipt.error = "code_and_message"

(* --------------------------- claims: handlers ------------------------- *)

RunOver == agent_run.pc \in {"returned", "raised"}

\* zero-or-more status, zero-or-more artifact, then one result, the last
FixedOrder(events) ==
    /\ Len(events) >= 1
    /\ events[Len(events)].type = "result"
    /\ \A i \in 1..(Len(events) - 1) : events[i].type # "result"
    /\ \A i, j \in 1..Len(events) :
           (i < j /\ events[i].type = "artifact") => events[j].type # "status"

\* C30 (as claimed): every handler run, once over, has yielded zero or more
\* status events, then zero or more artifact events, then exactly one result
\* event as its last event; when the agent's own processing raised, that
\* result carries the error text.
C30_EventsInFixedOrder ==
    RunOver =>
        /\ FixedOrder(agent_run.events)
        /\ agent_run.faulted =>
               agent_run.events[Len(agent_run.events)] = ResultEvent("error")

(* --------------------------- claims: consumer ------------------------- *)

\* C34 (as claimed): a service request for a price above 0 that is to be paid
\* upfront is sent only after the payment succeeded, and a payment id it
\* carries is the id of the receipt that payment returned: nothing with a
\* payment id is sent after a failed payment or one without a receipt.
C34_ProofIsAReceipt ==
    (consumer.request.sent /\ consumer.pay_upfront /\ consumer.price > 0) =>
        /\ consumer.paid = "succeeded"
        /\ consumer.request.payment_id # None =>
               /\ consumer.receipt # None
               /\ consumer.request.payment_id = consumer.receipt

(* --------------------------- claims: gateway -------------------------- *)

InInbox(id) ==
    \E i \in 1..Len(gateway.inbox) :
        gateway.inbox[i].kind # "call" /\ gateway.inbox[i].id = id

\* C35 (as claimed): while a request sent from inside a message handler
\* waits and the gateway's answer to it is on the websocket, the receive
\* loop is reading, so the answer is delivered without the timeout.
C35_AnswersReachHandlerRequests ==
    \A id \in 1..Len(gateway.requests) :
        (gateway.requests[id].origin = "handler" /\ Waiting(id) /\ InInbox(id)) =>
            gateway.loop = "reading"

\* C36 (as claimed): _pending_requests holds exactly the ids of the requests
\* still waiting for their response.
C36_PendingAreWaiting ==
    gateway.pending = {id \in 1..Len(gateway.requests) : Waiting(id)}

(* --------------------------- specifications --------------------------- *)

\* the other components at rest
TaskIdle ==
    /\ require_auth = FALSE /\ tasks = <<>> /\ calls = <<>>
    /\ lastReply = NoReply /\ nCalls = 0 /\ lastCall = NoCall /\ nEvents = 0
GateIdle == service_price = 0 /\ wallet_history = <<>> /\ run = Idle
AuctionIdle == variant = "aex_legal" /\ round = NoRound
RankIdle == ranking = NoRanking
PayIdle == payagent = NoPayAgent
ChainIdle == chain = NoChain /\ outcomes = {}
SessionIdle == session = NoSession
AgentIdle == agent_run = NoAgentRun
ConsumerIdle == consumer = NoConsumer
GatewayIdle == gateway = NoGateway
WorkflowIdle == workflow = NoWorkflow

\* the A2A server
Init == TaskInit /\ GateIdle /\ AuctionIdle /\ RankIdle /\ PayIdle /\ ChainIdle /\ SessionIdle /\ AgentIdle
    /\ ConsumerIdle /\ GatewayIdle /\ WorkflowIdle
Next == TaskNext
Spec == Init /\ [][Next]_vars

\* the provider's gate
InitGate == GateInit /\ TaskIdle /\ AuctionIdle /\ RankIdle /\ PayIdle /\ ChainIdle /\ SessionIdle /\ AgentIdle
    /\ ConsumerIdle /\ GatewayIdle /\ WorkflowIdle
NextGate == GateNext
SpecGate == InitGate /\ [][NextGate]_vars

\* the gate of a provider with a long wallet history
InitLedger == LedgerInit /\ TaskIdle /\ AuctionIdle /\ RankIdle /\ PayIdle /\ ChainIdle /\ SessionIdle /\ AgentIdle
    /\ ConsumerIdle /\ GatewayIdle /\ WorkflowIdle
NextLedger == LedgerNext
SpecLedger == InitLedger /\ [][NextLedger]_vars

\* bid collection
InitAuction == AuctionInit /\ TaskIdle /\ GateIdle /\ RankIdle /\ PayIdle /\ ChainIdle /\ SessionIdle /\ AgentIdle
    /\ ConsumerIdle /\ GatewayIdle /\ WorkflowIdle
NextAuction == AuctionNext
SpecAuction == InitAuction /\ [][NextAuction]_vars

\* evaluate_bids on every bid set within the bounds
InitRank == RankInit /\ TaskIdle /\ GateIdle /\ AuctionIdle /\ PayIdle /\ ChainIdle /\ SessionIdle /\ AgentIdle
    /\ ConsumerIdle /\ GatewayIdle /\ WorkflowIdle
NextRank == RankNext
SpecRank == InitRank /\ [][NextRank]_vars

\* evaluate_bids on the bids of the end-to-end scenario
InitScenario == ScenarioInit /\ TaskIdle /\ GateIdle /\ AuctionIdle /\ PayIdle /\ ChainIdle /\ SessionIdle /\ AgentIdle
    /\ ConsumerIdle /\ GatewayIdle /\ WorkflowIdle
NextScenario == RankNext
SpecScenario == InitScenario /\ [][NextScenario]_vars

\* a payment provider agent answering bid and process requests for one amount
InitPay == PayInit /\ TaskIdle /\ GateIdle /\ AuctionIdle /\ RankIdle /\ ChainIdle /\ SessionIdle /\ AgentIdle
    /\ ConsumerIdle /\ GatewayIdle /\ WorkflowIdle
NextPay == PayNext
SpecPay == InitPay /\ [][NextPay]_vars

\* calls of pay_for_service_with_steps against any answers of the Token Bank
InitChain == ChainInit /\ TaskIdle /\ GateIdle /\ AuctionIdle /\ RankIdle /\ PayIdle /\ SessionIdle /\ AgentIdle
    /\ ConsumerIdle /\ GatewayIdle /\ WorkflowIdle
NextChain == ChainNext
SpecChain == InitChain /\ [][NextChain]_vars

\* the marketplace UI
InitSession ==
    SessionInit /\ TaskIdle /\ GateIdle /\ AuctionIdle /\ RankIdle /\ PayIdle /\ ChainIdle
    /\ AgentIdle /\ ConsumerIdle /\ GatewayIdle /\ WorkflowIdle
NextSession == SessionNext
SpecSession == InitSession /\ [][NextSession]_vars

\* the agents' handler generators
InitAgent ==
    AgentInit /\ TaskIdle /\ GateIdle /\ AuctionIdle /\ RankIdle /\ PayIdle /\ ChainIdle
    /\ SessionIdle /\ ConsumerIdle /\ GatewayIdle /\ WorkflowIdle
NextAgent == AgentNext
SpecAgent == InitAgent /\ [][NextAgent]_vars

\* the consumer's service requests
InitConsumer ==
    ConsumerInit /\ TaskIdle /\ GateIdle /\ AuctionIdle /\ RankIdle /\ PayIdle
    /\ ChainIdle /\ SessionIdle /\ AgentIdle /\ GatewayIdle /\ WorkflowIdle
NextConsumer == ConsumerNext
SpecConsumer == InitConsumer /\ [][NextConsumer]_vars

\* the gateway client
InitGateway ==
    GatewayInit /\ TaskIdle /\ GateIdle /\ AuctionIdle /\ RankIdle /\ PayIdle
    /\ ChainIdle /\ SessionIdle /\ AgentIdle /\ ConsumerIdle /\ WorkflowIdle
NextGateway == GatewayNext
SpecGateway == InitGateway /\ [][NextGateway]_vars

\* the one-click workflow run
InitWorkflow ==
    WorkflowInit /\ TaskIdle /\ GateIdle /\ AuctionIdle /\ RankIdle /\ PayIdle
    /\ ChainIdle /\ SessionIdle /\ AgentIdle /\ ConsumerIdle /\ GatewayIdle
NextWorkflow == WorkflowNext
SpecWorkflow == InitWorkflow /\ [][NextWorkflow]_vars

\* the same with the scheduling of a started handler: every call it waits in
\* returns (the HTTP calls have timeouts and their exceptions are caught) and
\* the handler goes on; nothing obliges the user to click again
SpecWorkflowFair ==
    /\ SpecWorkflow
    /\ WF_vars(BidsFetched) /\ WF_vars(BidsEvaluated)
    /\ WF_vars(AgentCalled) /\ WF_vars(PaymentBidsFetched)
====
